---- MODULE Spec2Model ----
(***************************************************************************)
(* MoMo-Shadow reconnaissance engine: the capture engine (core/capture.py) *)
(* the deauth emitter (core/deauth.py), the channel hopper                 *)
(* (core/hopper.py) and the orchestrator (main.py) as state machines.      *)
(*                                                                         *)
(* asyncio is modelled at the granularity of the event loop: one action is *)
(* the run of a coroutine from one suspension point (an await that really  *)
(* yields: a subprocess, a sleep, a thread-pool future, a live task) to    *)
(* the next.  A packet handler run by the sniff thread is one action.      *)
(***************************************************************************)
EXTENDS Integers, Sequences, FiniteSets, TLC

(***************************************************************************)
(* Bounds of the model.                                                    *)
(***************************************************************************)
MaxLoops == 2        \* capture_loop tasks that may be alive at once
MaxSessions == 1     \* accepted CaptureEngine.start_capture calls
MaxEapol == 3        \* cap on CaptureStats.eapol_count
CaptureTimeout == 2  \* the capture timeout in seconds (config.capture.timeout)
MaxCount == 3        \* largest count of a deauth burst
MaxCmds == 2         \* commands with an await that the web server passes on
MaxSetups == 1       \* return_to_setup commands among them
MaxOrchEapol == 2    \* EAPOL frames of a session while the orchestrator runs

(***************************************************************************)
(* Values.                                                                 *)
(***************************************************************************)
TargetBssid == "aa:01"
OtherBssid == "aa:99"
UpperTargetBssid == "AA:01"
Client1 == "11:66"
Client2 == "22:77"
HomeNet == "HomeNet"
Broadcast == "ff:ff"
NoClient == "None"

\* str.lower() on the MAC strings of the model
Lower(s) == IF s = UpperTargetBssid THEN TargetBssid ELSE s

\* Key Information values seen on the air: 0x008a (M1), 0x010a (M2),
\* 0x13ca (M3), 0x030a (M4) of the 4-way handshake, and 0x0382, a group-key
\* message (ack, mic, secure, no install)
KeyInfos == {138, 266, 5066, 778, 898}

Bit(n, i) == (n \div (2 ^ i)) % 2

\* _get_eapol_message_num taking every frame with mic and without ack for M2
GetEapolMessageNum_NoSecureTest(key_info) ==
    LET key_ack == Bit(key_info, 7)
        key_mic == Bit(key_info, 8)
        secure == Bit(key_info, 9)
        install == Bit(key_info, 6)
    IN  IF key_ack = 1 /\ key_mic = 0 THEN 1
        ELSE IF key_mic = 1 /\ key_ack = 0 THEN 2
        ELSE IF key_ack = 1 /\ key_mic = 1 /\ secure = 1 /\ install = 1 THEN 3
        ELSE IF key_mic = 1 /\ secure = 1 /\ key_ack = 0 THEN 4
        ELSE 0

\* CaptureEngine._get_eapol_message_num; 0 stands for None
GetEapolMessageNum(key_info) ==
    LET key_ack == Bit(key_info, 7)
        key_mic == Bit(key_info, 8)
        secure == Bit(key_info, 9)
        install == Bit(key_info, 6)
    IN  IF key_ack = 1 /\ key_mic = 0 THEN 1
        ELSE IF key_mic = 1 /\ key_ack = 0 /\ secure = 0 THEN 2
        ELSE IF key_ack = 1 /\ key_mic = 1 /\ secure = 1 /\ install = 1 THEN 3
        ELSE IF key_mic = 1 /\ secure = 1 /\ key_ack = 0 THEN 4
        ELSE 0

\* An EAPOL-Key frame as the sniff thread hands it to _handle_packet: the
\* three 802.11 addresses and the Key Information field.  Frames with the ack
\* bit travel AP -> client, the others client -> AP.
EapolFrame(b, c, k) ==
    IF Bit(k, 7) = 1
    THEN [addr1 |-> c, addr2 |-> b, addr3 |-> b, key_info |-> k]
    ELSE [addr1 |-> b, addr2 |-> c, addr3 |-> b, key_info |-> k]

\* the frames on the air: every handshake message of two clients of the
\* target AP, a group-key message, and an M2 of another AP
EapolFrames ==
    {EapolFrame(TargetBssid, c, k) : c \in {Client1, Client2},
                                     k \in KeyInfos \ {898}}
    \cup {EapolFrame(TargetBssid, Client1, 898),
          EapolFrame(OtherBssid, Client1, 266)}

VARIABLES
    cap_running,        \* CaptureEngine._running
    cap_task,           \* CaptureEngine._capture_task: a loop slot, 0 = None
    cap_current_target, \* CaptureEngine._current_target: <<>> = None, else <<bssid, ssid>>
    cap_stats,          \* CaptureEngine._stats
    cap_eapol_frames,   \* CaptureEngine._eapol_frames: client_mac -> (msg_num -> frame)
    cap_session,        \* number of sessions opened so far (stands for CaptureStats.start_time)
    capture_loop,       \* the capture_loop tasks: slot -> [pc, elapsed, cancel]
    stale_sniff,        \* a sniff() thread outlives its cancelled capture_loop
    orch_handshakes,    \* ShadowOrchestrator._handshakes (the on_handshake callback)
    cmd,                \* the callers of the engine: slot -> [pc, wait]
    dth_running,        \* DeauthAttack._running
    dth_stats,          \* DeauthAttack._stats
    dth_call,           \* the coroutines inside DeauthAttack: "direct", "cont", "cont2"
    orch,               \* ShadowOrchestrator: its fields, the radio, the config
    scn,                \* the orchestrator's WiFiScanner
    hop                 \* the orchestrator's ChannelHopper

deauth_vars == <<dth_running, dth_stats, dth_call>>

\* what the capture engine's own steps leave alone
not_engine_vars == <<dth_running, dth_stats, dth_call, orch, scn, hop>>

\* what the deauth emitter's steps leave alone
not_deauth_vars == <<cap_running, cap_task, cap_current_target, cap_stats,
                     cap_eapol_frames, cap_session, capture_loop, stale_sniff,
                     orch_handshakes, cmd, orch, scn, hop>>

engine_vars == <<cap_running, cap_task, cap_current_target, cap_stats,
                 cap_eapol_frames, cap_session, capture_loop, stale_sniff,
                 orch_handshakes>>

vars == <<cap_running, cap_task, cap_current_target, cap_stats,
          cap_eapol_frames, cap_session, capture_loop, stale_sniff,
          orch_handshakes, cmd, dth_running, dth_stats, dth_call, orch,
          scn, hop>>

LoopSlots == 1 .. MaxLoops

\* CaptureStats before any session: CaptureEngine._stats is None
NoStats ==
    [present |-> FALSE, target_bssid |-> "", target_ssid |-> "",
     end_time |-> FALSE, state |-> "IDLE", eapol_count |-> 0,
     handshakes |-> <<>>]

\* CaptureEngine.state
EngineState == IF cap_stats.present THEN cap_stats.state ELSE "IDLE"

FreeLoop == [pc |-> "free", elapsed |-> 0, cancel |-> FALSE]

\* is_complete without the M2+M3 alternative
is_complete_OnlyM1M2(hs) ==
    IF hs.capture_type = "pmkid" THEN TRUE
    ELSE Cardinality(hs.messages) >= 2
         /\ (1 \in hs.messages /\ 2 \in hs.messages)

\* is_complete asking for exactly two messages
is_complete_ExactlyTwo(hs) ==
    IF hs.capture_type = "pmkid" THEN TRUE
    ELSE Cardinality(hs.messages) = 2
         /\ ((1 \in hs.messages /\ 2 \in hs.messages)
             \/ (2 \in hs.messages /\ 3 \in hs.messages))

\* Handshake.is_complete
is_complete(hs) ==
    IF hs.capture_type = "pmkid" THEN TRUE
    ELSE Cardinality(hs.messages) >= 2
         /\ ((1 \in hs.messages /\ 2 \in hs.messages)
             \/ (2 \in hs.messages /\ 3 \in hs.messages))

EmptyMap == [x \in {} |-> 0]

\* dict[key] = value
MapPut(m, key, value) ==
    [x \in DOMAIN m \cup {key} |-> IF x = key THEN value ELSE m[x]]

\* A finished capture_loop nobody holds (neither CaptureEngine._capture_task
\* nor an awaiting caller) is garbage: its slot is free again.
Collect(loops, task, callers) ==
    [k \in LoopSlots |->
        IF loops[k].pc = "done" /\ k # task
           /\ ~(\E i \in DOMAIN callers : callers[i].wait = k)
        THEN FreeLoop ELSE loops[k]]

\* the slot a new capture_loop task gets
NewLoopSlot(loops) ==
    CHOOSE k \in LoopSlots :
        /\ loops[k].pc = "free"
        /\ \A j \in LoopSlots : loops[j].pc = "free" => k <= j

\* the finally clause of capture_loop: self._stats.end_time = datetime.now()
LoopFinally(stats) == [stats EXCEPT !.end_time = TRUE]

\* CaptureEngine.start_capture(bssid, ssid); returns False (and changes
\* nothing) while a capture is in progress
EngineStartCapture(bssid, ssid) ==
    IF cap_running
    THEN UNCHANGED engine_vars
    ELSE LET loops == Collect(capture_loop, 0, cmd)
         IN  /\ \E k \in LoopSlots : loops[k].pc = "free"
             /\ cap_session < MaxSessions
             /\ cap_current_target' = <<Lower(bssid), ssid>>
             /\ cap_stats' = [present |-> TRUE, target_bssid |-> bssid,
                              target_ssid |-> ssid, end_time |-> FALSE,
                              state |-> "WAITING", eapol_count |-> 0,
                              handshakes |-> <<>>]
             /\ cap_eapol_frames' = EmptyMap
             /\ cap_running' = TRUE
             /\ cap_session' = cap_session + 1
             /\ cap_task' = NewLoopSlot(loops)
             /\ capture_loop' =
                    [loops EXCEPT ![NewLoopSlot(loops)] =
                        [pc |-> "created", elapsed |-> 0, cancel |-> FALSE]]
             /\ UNCHANGED <<stale_sniff, orch_handshakes>>

\* the task CaptureEngine._capture_task names has not finished
CapTaskLive ==
    cap_task # 0 /\ capture_loop[cap_task].pc \in {"created", "sniffing"}

\* stop_capture, after the task: end_time is set and CAPTURING becomes IDLE
StopStats(stats) ==
    IF stats.present
    THEN [stats EXCEPT !.end_time = TRUE,
                       !.state = IF @ = "CAPTURING" THEN "IDLE" ELSE @]
    ELSE stats

\* CaptureEngine.stop_capture up to `await self._capture_task` on a live
\* task: the caller is suspended until the cancelled task has finished
EngineStopSuspend ==
    /\ CapTaskLive
    /\ cap_running' = FALSE
    /\ capture_loop' = [capture_loop EXCEPT ![cap_task].cancel = TRUE]
    /\ UNCHANGED <<cap_task, cap_current_target, cap_stats, cap_eapol_frames,
                   cap_session, stale_sniff, orch_handshakes>>

\* CaptureEngine.stop_capture with no live task: it runs to its end at once
EngineStopSync(callers) ==
    /\ ~CapTaskLive
    /\ cap_running' = FALSE
    /\ cap_task' = 0
    /\ cap_stats' = StopStats(cap_stats)
    /\ capture_loop' = Collect(capture_loop, 0, callers)
    /\ UNCHANGED <<cap_current_target, cap_eapol_frames, cap_session,
                   stale_sniff, orch_handshakes>>

\* CaptureEngine.stop_capture from the await on: the awaited task is done
EngineStopResume(callers) ==
    /\ cap_task' = 0
    /\ cap_stats' = StopStats(cap_stats)
    /\ capture_loop' = Collect(capture_loop, 0, callers)
    /\ UNCHANGED <<cap_running, cap_current_target, cap_eapol_frames,
                   cap_session, stale_sniff, orch_handshakes>>

\* capture_loop leaving at the deadline without marking the session TIMEOUT
LoopTop_NoTimeoutState(k, elapsed) ==
    IF ~cap_running' \/ elapsed >= CaptureTimeout
    THEN /\ cap_stats' = LoopFinally(cap_stats)
         /\ capture_loop' = Collect([capture_loop EXCEPT ![k].pc = "done"],
                                    cap_task, cmd)
    ELSE /\ cap_stats' = cap_stats
         /\ capture_loop' = [capture_loop EXCEPT ![k].pc = "sniffing",
                                                 ![k].elapsed = elapsed]

\* capture_loop at the head of `while self._running`: the loop ends, or the
\* deadline is reached, or the next sniff() is handed to the thread pool
LoopTop(k, elapsed) ==
    IF ~cap_running'
    THEN /\ cap_stats' = LoopFinally(cap_stats)
         /\ capture_loop' = Collect([capture_loop EXCEPT ![k].pc = "done"],
                                    cap_task, cmd)
    ELSE IF elapsed >= CaptureTimeout
    THEN /\ cap_stats' = LoopFinally([cap_stats EXCEPT !.state = "TIMEOUT"])
         /\ capture_loop' = Collect([capture_loop EXCEPT ![k].pc = "done"],
                                    cap_task, cmd)
    ELSE /\ cap_stats' = cap_stats
         /\ capture_loop' = [capture_loop EXCEPT ![k].pc = "sniffing",
                                                 ![k].elapsed = elapsed]

\* the first run of a capture_loop task
CaptureLoopRun(k) ==
    /\ capture_loop[k].pc = "created"
    /\ ~capture_loop[k].cancel
    /\ cap_running' = cap_running
    /\ LoopTop(k, 0)
    /\ UNCHANGED <<cap_task, cap_current_target, cap_eapol_frames,
                   cap_session, stale_sniff, orch_handshakes, cmd, not_engine_vars>>

\* some handshake of the session is complete (capture_loop, after sniff)
\* a success test that only counts the handshakes written to a file
HasCompleteHandshake_SavedOnly(stats) ==
    \E i \in DOMAIN stats.handshakes :
        is_complete(stats.handshakes[i]) /\ stats.handshakes[i].pcap_path

HasCompleteHandshake(stats) ==
    \E i \in DOMAIN stats.handshakes : is_complete(stats.handshakes[i])

\* sniff(timeout=1) returns after its second: the loop looks for a complete
\* handshake, then goes round
SniffReturn(k) ==
    /\ capture_loop[k].pc = "sniffing"
    /\ ~capture_loop[k].cancel
    /\ IF HasCompleteHandshake(cap_stats)
       THEN /\ cap_running' = FALSE
            /\ cap_stats' = LoopFinally([cap_stats EXCEPT !.state = "SUCCESS"])
            /\ capture_loop' = Collect([capture_loop EXCEPT ![k].pc = "done"],
                                       cap_task, cmd)
       ELSE /\ cap_running' = cap_running
            /\ LoopTop(k, capture_loop[k].elapsed + 1)
    /\ UNCHANGED <<cap_task, cap_current_target, cap_eapol_frames,
                   cap_session, stale_sniff, orch_handshakes, cmd, not_engine_vars>>

\* sniff() raises (interface down, scapy missing): except Exception -> ERROR
SniffError(k) ==
    /\ capture_loop[k].pc = "sniffing"
    /\ ~capture_loop[k].cancel
    /\ cap_stats' = LoopFinally([cap_stats EXCEPT !.state = "ERROR"])
    /\ capture_loop' = Collect([capture_loop EXCEPT ![k].pc = "done"],
                               cap_task, cmd)
    /\ UNCHANGED <<cap_running, cap_task, cap_current_target,
                   cap_eapol_frames, cap_session, stale_sniff,
                   orch_handshakes, cmd, not_engine_vars>>

\* a cancelled capture_loop gets its CancelledError: a task that never ran
\* just ends; one waiting for sniff() runs its finally clause and leaves the
\* sniff thread behind
LoopCancelled(k) ==
    /\ capture_loop[k].pc \in {"created", "sniffing"}
    /\ capture_loop[k].cancel
    /\ cap_stats' = IF capture_loop[k].pc = "sniffing"
                    THEN LoopFinally(cap_stats) ELSE cap_stats
    /\ stale_sniff' = (stale_sniff \/ capture_loop[k].pc = "sniffing")
    /\ capture_loop' = Collect([capture_loop EXCEPT ![k].pc = "done"],
                               cap_task, cmd)
    /\ UNCHANGED <<cap_running, cap_task, cap_current_target,
                   cap_eapol_frames, cap_session, orch_handshakes, cmd, not_engine_vars>>

\* the left-behind sniff thread reaches its one-second timeout
StaleSniffEnd ==
    /\ stale_sniff
    /\ stale_sniff' = FALSE
    /\ UNCHANGED <<cap_running, cap_task, cap_current_target, cap_stats,
                   cap_eapol_frames, cap_session, capture_loop,
                   orch_handshakes, cmd, not_engine_vars>>

\* some sniff thread of the engine is reading frames
Sniffing ==
    stale_sniff \/ \E k \in LoopSlots : capture_loop[k].pc = "sniffing"

\* _check_handshake: the message numbers held make a crackable pair
ValidCombination(messages) ==
    (1 \in messages /\ 2 \in messages) \/ (2 \in messages /\ 3 \in messages)

\* _check_handshake without the "already recorded" test
Recorded_Never(handshakes, client_mac) == 0

\* _check_handshake: the index of the handshake already recorded for the
\* client in CaptureStats.handshakes, 0 when there is none
Recorded(handshakes, client_mac) ==
    IF \E i \in DOMAIN handshakes : handshakes[i].client_mac = client_mac
    THEN CHOOSE i \in DOMAIN handshakes :
            /\ handshakes[i].client_mac = client_mac
            /\ \A j \in DOMAIN handshakes :
                  handshakes[j].client_mac = client_mac => i <= j
    ELSE 0

\* the target test of _handle_packet
OnTarget(bssid) ==
    ~(cap_current_target # <<>> /\ bssid # cap_current_target[1])

\* _handle_packet filing every frame under the BSSID
ClientOf_Bssid(f, bssid) == bssid

\* _handle_packet: the client of a frame is its sender, or its receiver when
\* the sender is the AP
ClientOf(f, bssid) == IF f.addr2 # bssid THEN f.addr2 ELSE f.addr1

\* _handle_packet counts the frame and marks the session CAPTURING
CountFrame(stats) ==
    [stats EXCEPT !.eapol_count = @ + 1, !.state = "CAPTURING"]

\* CaptureEngine._handle_packet(packet), run by a sniff thread, with
\* _check_handshake and _save_handshake (which may fail to write the file)
HandlePacket(f) ==
    /\ Sniffing
    /\ cap_stats.present
    /\ cap_stats.eapol_count < MaxEapol
    /\ LET bssid == Lower(f.addr3)
           client_mac == ClientOf(f, bssid)
           msg_num == GetEapolMessageNum(f.key_info)
           counted == CountFrame(cap_stats)
           old == IF client_mac \in DOMAIN cap_eapol_frames
                  THEN cap_eapol_frames[client_mac] ELSE EmptyMap
           frames == MapPut(old, msg_num, f)
           messages == DOMAIN frames
           ssid == IF cap_current_target # <<>>
                   THEN cap_current_target[2] ELSE "unknown"
           idx == Recorded(counted.handshakes, client_mac)
       IN  IF ~OnTarget(bssid) \/ msg_num = 0
           THEN /\ cap_stats' = counted
                /\ UNCHANGED <<cap_eapol_frames, orch_handshakes>>
           ELSE /\ cap_eapol_frames' = MapPut(cap_eapol_frames, client_mac, frames)
                /\ IF ~ValidCombination(messages)
                   THEN /\ cap_stats' = counted
                        /\ UNCHANGED orch_handshakes
                   ELSE IF idx # 0
                   THEN /\ cap_stats' =
                             [counted EXCEPT !.handshakes[idx].messages = messages]
                        /\ UNCHANGED orch_handshakes
                   ELSE \E saved \in BOOLEAN :
                        LET handshake ==
                              [bssid |-> bssid, ssid |-> ssid,
                               client_mac |-> client_mac,
                               capture_type |-> "handshake",
                               messages |-> messages,
                               pcap_path |-> saved,
                               session |-> cap_session]
                        IN  /\ cap_stats' =
                                 [counted EXCEPT !.handshakes = Append(@, handshake)]
                            /\ orch_handshakes' =
                                 Append(orch_handshakes,
                                        [session |-> cap_session,
                                         client_mac |-> client_mac,
                                         bssid |-> bssid, ssid |-> ssid,
                                         pcap_path |-> saved])
    /\ UNCHANGED <<cap_running, cap_task, cap_current_target, cap_session,
                   capture_loop, stale_sniff, cmd, not_engine_vars>>

(***************************************************************************)
(* The deauth emitter (core/deauth.py).                                    *)
(***************************************************************************)
\* the frame built for one direction: addr1 = destination, addr2 = source
DeauthFrame(dst, src, bssid) ==
    [addr1 |-> dst, addr2 |-> src, addr3 |-> bssid, reason |-> 7]

\* an iteration that sends the client -> AP frame whatever the client
IterationFrames_BothDirections(bssid, client) ==
    LET target_client == IF client = NoClient THEN Broadcast ELSE client
    IN  <<DeauthFrame(target_client, bssid, bssid),
          DeauthFrame(bssid, target_client, bssid)>>

\* what one iteration of the loop hands to sendp
IterationFrames(bssid, client) ==
    IF client = NoClient
    THEN <<DeauthFrame(Broadcast, bssid, bssid)>>
    ELSE <<DeauthFrame(client, bssid, bssid), DeauthFrame(bssid, client, bssid)>>

\* the start_continuous coroutines that can be alive at once
ContSlots == {"cont", "cont2"}

\* a coroutine inside DeauthAttack; `stopped` records that stop() has been
\* called since the start_continuous that runs it began
NoCall ==
    [pc |-> "idle", client |-> NoClient, count |-> 0, interval |-> 0, i |-> 0,
     sent |-> <<>>, ret |-> 0, stopped |-> FALSE]

\* send_deauth's `for i in range(count)` from iteration i up to the next
\* asyncio.sleep(interval) or to the return of packets_sent
RECURSIVE BurstFrom(_, _, _)
BurstFrom(c, i, running) ==
    IF i >= c.count \/ (~running /\ i > 0)
    THEN [c EXCEPT !.pc = "done", !.i = i, !.ret = Len(c.sent)]
    ELSE LET sent == c.sent \o IterationFrames(TargetBssid, c.client)
         IN  IF c.interval > 0 /\ i < c.count - 1
             THEN [c EXCEPT !.pc = "sleeping", !.i = i, !.sent = sent]
             ELSE BurstFrom([c EXCEPT !.sent = sent], i + 1, running)

\* DeauthStats as send_deauth leaves it: created at the call, packets_sent and
\* end_time written after the loop
BurstStats(c) ==
    [present |-> TRUE, target_client |-> c.client,
     packets_sent |-> IF c.pc = "done" THEN c.ret ELSE 0,
     end_time |-> c.pc = "done"]

\* the continuous task after its burst returned: asyncio.sleep(burst_interval)
AfterBurst(who, c) ==
    IF who \in ContSlots /\ c.pc = "done"
    THEN [c EXCEPT !.pc = "burst_interval"] ELSE c

\* await deauth.send_deauth(bssid, client, count, interval)
SendDeauth(who, client, count, interval, running) ==
    LET c == BurstFrom([NoCall EXCEPT !.client = client, !.count = count,
                                      !.interval = interval,
                                      !.stopped = dth_call[who].stopped],
                       0, running)
    IN  /\ dth_stats' = BurstStats(c)
        /\ dth_call' = [dth_call EXCEPT ![who] = AfterBurst(who, c)]

\* a direct caller (the orchestrator's send_deauth, the web handler)
CallSendDeauth(client, count, interval) ==
    /\ dth_call["direct"].pc \in {"idle", "done"}
    /\ SendDeauth("direct", client, count, interval, dth_running)
    /\ UNCHANGED <<dth_running, not_deauth_vars>>

\* asyncio.sleep(interval) inside a burst is over
BurstWake(who) ==
    /\ dth_call[who].pc = "sleeping"
    /\ LET c == BurstFrom(dth_call[who], dth_call[who].i + 1, dth_running)
       IN  /\ dth_call' = [dth_call EXCEPT ![who] = AfterBurst(who, c)]
           /\ dth_stats' = IF c.pc = "done"
                           THEN [dth_stats EXCEPT !.packets_sent = c.ret,
                                                  !.end_time = TRUE]
                           ELSE dth_stats
    /\ UNCHANGED <<dth_running, not_deauth_vars>>

\* start_continuous(bssid, client, burst_count): every burst of it uses
\* send_deauth's default interval of 0.1 s
StartContinuous(who, client, burst_count) ==
    /\ dth_call[who].pc = "idle"
    /\ \A other \in ContSlots \ {who} :
          who = "cont" \/ dth_call[other].pc # "idle"
    /\ dth_running' = TRUE
    /\ SendDeauth(who, client, burst_count, 1, TRUE)
    /\ UNCHANGED not_deauth_vars

\* asyncio.sleep(burst_interval) is over: `while self._running`
ContinuousWake(who) ==
    /\ dth_call[who].pc = "burst_interval"
    /\ IF dth_running
       THEN SendDeauth(who, dth_call[who].client, dth_call[who].count, 1, TRUE)
       ELSE /\ dth_call' = [dth_call EXCEPT ![who] = NoCall]
            /\ UNCHANGED dth_stats
    /\ UNCHANGED <<dth_running, not_deauth_vars>>

\* DeauthAttack.stop()
DeauthStop ==
    /\ dth_running' = FALSE
    /\ dth_stats' = IF dth_stats.present
                    THEN [dth_stats EXCEPT !.end_time = TRUE] ELSE dth_stats
    /\ dth_call' = [w \in DOMAIN dth_call |->
                       IF w \in ContSlots /\ dth_call[w].pc # "idle"
                       THEN [dth_call[w] EXCEPT !.stopped = TRUE]
                       ELSE dth_call[w]]
    /\ UNCHANGED not_deauth_vars

DeauthInit ==
    /\ dth_running = FALSE
    /\ dth_stats = [present |-> FALSE, target_client |-> NoClient,
                    packets_sent |-> 0, end_time |-> FALSE]
    /\ dth_call = [w \in {"direct"} \cup ContSlots |-> NoCall]

DeauthNext ==
    \/ \E client \in {NoClient, Client1}, count \in 1 .. MaxCount,
         interval \in {0, 1} : CallSendDeauth(client, count, interval)
    \/ \E who \in {"direct"} \cup ContSlots : BurstWake(who)
    \/ \E who \in ContSlots, client \in {NoClient, Client1},
         count \in 1 .. MaxCount : StartContinuous(who, client, count)
    \/ \E who \in ContSlots : ContinuousWake(who)
    \/ DeauthStop

(***************************************************************************)
(* The channel hopper (core/hopper.py) and the scanner (core/scanner.py)   *)
(* as the orchestrator uses them: a record per object, whose `loops` are   *)
(* the hop_loop / scan_loop tasks the object has created.                  *)
(***************************************************************************)
\* the channels hopped over (config.get_all_channels(), shortened)
Channels == <<1, 6>>

FreeTask == [pc |-> "free", cancel |-> FALSE, idx |-> 0]

Live(l) == l.pc \notin {"free", "done"}

\* the tasks of an object the orchestrator has replaced: a cancelled one
\* still has to end, the others are out of the orchestrator's reach
Orphans(loops, free) ==
    [k \in DOMAIN loops |->
        IF Live(loops[k]) /\ ~loops[k].cancel THEN free ELSE loops[k]]

\* ChannelHopper(...) / WiFiScanner(...)
NewHopper(old) ==
    [running |-> FALSE, task |-> 0, channel |-> 0,
     loops |-> Orphans(old.loops, FreeTask)]

NewScanner(old) ==
    [running |-> FALSE, task |-> 0, ap_known |-> FALSE, ap_channel |-> 0,
     loops |-> Orphans(old.loops, FreeTask)]

\* a finished task that neither the object nor an awaiting coroutine holds
CollectTasks(loops, task, callers, field) ==
    [k \in DOMAIN loops |->
        IF loops[k].pc = "done" /\ k # task
           /\ ~(\E i \in DOMAIN callers : callers[i][field] = k)
        THEN FreeTask ELSE loops[k]]

FirstFree(loops) ==
    IF \E k \in DOMAIN loops : loops[k].pc = "free"
    THEN CHOOSE k \in DOMAIN loops :
            /\ loops[k].pc = "free"
            /\ \A j \in DOMAIN loops : loops[j].pc = "free" => k <= j
    ELSE 0

\* ChannelHopper.start / WiFiScanner.start: nothing when already running,
\* else _running = True and a new task
TaskStart(c, callers, field) ==
    IF c.running THEN c
    ELSE LET loops == CollectTasks(c.loops, 0, callers, field)
             k == FirstFree(loops)
         IN  [c EXCEPT !.running = TRUE, !.task = k,
                       !.loops = IF k = 0 THEN loops
                                 ELSE [loops EXCEPT ![k] =
                                         [pc |-> "created", cancel |-> FALSE,
                                          idx |-> 1]]]

\* the model has a task slot left for start()
CanStart(c, callers, field) ==
    c.running \/ FirstFree(CollectTasks(c.loops, 0, callers, field)) # 0

\* ChannelHopper.stop / WiFiScanner.stop up to the await: _running = False
\* and the task, if any, cancelled
TaskStopCall(c) ==
    [c EXCEPT !.running = FALSE,
              !.loops = IF c.task # 0 /\ Live(c.loops[c.task])
                        THEN [c.loops EXCEPT ![c.task].cancel = TRUE]
                        ELSE c.loops]

\* stop() has to wait for the task it cancelled
TaskStopWaits(c) == c.task # 0 /\ Live(c.loops[c.task])

\* ChannelHopper.stop / WiFiScanner.stop after the await: self._task = None
TaskStopEnd(c) == [c EXCEPT !.task = 0]

(***************************************************************************)
(* The orchestrator (main.py).  Its coroutines are the entries of `cmd`:   *)
(* run_shadow ("boot"), the setup timeout tasks, the main loop and the     *)
(* command handlers of the web server.  A coroutine is run from where it   *)
(* stands up to its next await that suspends; the functions below take and *)
(* return a `world`: the orchestrator, scanner and hopper records, the     *)
(* coroutine table and what is asked of the capture engine.                *)
(***************************************************************************)
UseNexmon == TRUE   \* config.scan.use_nexmon
AutoStop == TRUE    \* config.capture.auto_stop
Modes == {"passive", "capture"}
CmdSlots == {"c1", "c2"}
TimeoutTasks == {"t1", "t2"}
TaskIds == {"boot", "main"} \cup CmdSlots \cup TimeoutTasks

IdleTask ==
    [pc |-> "idle", op |-> "none", wait |-> 0, hwait |-> 0, swait |-> 0,
     mode |-> "", channel |-> 0, cancel |-> FALSE]

World(t) ==
    [o |-> orch, s |-> scn, h |-> hop, tasks |-> cmd, me |-> t,
     eop |-> "none", ok |-> TRUE, stuck |-> FALSE]

Me(w) == w.tasks[w.me]

\* the coroutine returns (or its exception reaches the event loop)
End(w) ==
    [w EXCEPT !.tasks[w.me] =
        IF w.me \in CmdSlots THEN IdleTask
        ELSE [IdleTask EXCEPT !.pc = "done", !.op = Me(w).op]]

\* an await that suspends; a coroutine whose task has been cancelled gets
\* CancelledError there instead
Suspend(w, pc) ==
    IF Me(w).cancel THEN End(w) ELSE [w EXCEPT !.tasks[w.me].pc = pc]

\* task.cancel()
Cancel(tasks, id) ==
    IF id = "" \/ tasks[id].pc \in {"idle", "done"} THEN tasks
    ELSE [tasks EXCEPT ![id].cancel = TRUE]

FreeTimeoutTask(tasks) ==
    IF tasks["t1"].pc \in {"idle", "done"} THEN "t1"
    ELSE IF tasks["t2"].pc \in {"idle", "done"} THEN "t2" ELSE ""

RECURSIVE run_shadow(_, _), enter_setup_mode(_, _), enter_monitor_mode(_, _),
          return_to_setup(_, _), start_scanning(_, _), start(_, _), stop(_, _),
          set_mode(_, _), start_capture(_, _), stop_capture(_, _),
          private_start_scanning(_, _), main_loop(_, _), shutdown(_, _)

\* scanner.stop() inside an orchestrator function `f`: f goes on at `next`,
\* at once or after the wait at `waitpc`
ScannerStop(w, waitpc) ==
    IF ~w.o.comps THEN [w EXCEPT !.tasks[w.me].pc = "go"]
    ELSE IF TaskStopWaits(w.s)
    THEN [w EXCEPT !.s = TaskStopCall(w.s),
                   !.tasks[w.me].pc = waitpc,
                   !.tasks[w.me].swait = w.s.task]
    ELSE [w EXCEPT !.s = TaskStopEnd(TaskStopCall(w.s)),
                   !.tasks[w.me].pc = "go"]

HopperStop(w, waitpc) ==
    IF ~w.o.comps THEN [w EXCEPT !.tasks[w.me].pc = "go"]
    ELSE IF TaskStopWaits(w.h)
    THEN [w EXCEPT !.h = TaskStopCall(w.h),
                   !.tasks[w.me].pc = waitpc,
                   !.tasks[w.me].hwait = w.h.task]
    ELSE [w EXCEPT !.h = TaskStopEnd(TaskStopCall(w.h)),
                   !.tasks[w.me].pc = "go"]

\* capture_engine.stop_capture() inside an orchestrator function
EngineStop(w, waitpc) ==
    IF ~w.o.comps THEN [w EXCEPT !.tasks[w.me].pc = "go"]
    ELSE IF CapTaskLive
    THEN [w EXCEPT !.eop = "stop_suspend",
                   !.tasks[w.me].pc = waitpc,
                   !.tasks[w.me].wait = cap_task]
    ELSE [w EXCEPT !.eop = "stop_sync", !.tasks[w.me].pc = "go"]

\* the awaited task is done: stop() of the component goes on to its end
ScannerStopped(w) ==
    [w EXCEPT !.s = TaskStopEnd(w.s), !.tasks[w.me].swait = 0,
              !.tasks[w.me].cancel = FALSE]

HopperStopped(w) ==
    [w EXCEPT !.h = TaskStopEnd(w.h), !.tasks[w.me].hwait = 0,
              !.tasks[w.me].cancel = FALSE]

EngineStopped(w) ==
    [w EXCEPT !.eop = "stop_resume", !.tasks[w.me].wait = 0,
              !.tasks[w.me].cancel = FALSE]

\* run_shadow: initialize(), start(), then the wait for STOPPED and the
\* final stop()
run_shadow(w, at) ==
    CASE at = "begin" ->
            IF w.o.ap_enabled THEN enter_setup_mode(w, "begin")
            ELSE enter_monitor_mode(w, "begin")
      [] at = "initialized" -> start(w, "begin")
      [] at = "started" -> Suspend(w, "run_shadow:watch")
      [] at = "run_shadow:watch" -> stop(w, "begin")
      [] OTHER -> End(w)

\* ShadowOrchestrator._enter_setup_mode
enter_setup_mode(w, at) ==
    CASE at = "begin" ->
            Suspend([w EXCEPT !.o.state = "SETUP", !.o.setup_mode = TRUE,
                              !.o.wifi_ap = "down"],
                    "setup:wifi_ap.start")
      [] OTHER ->
            LET tid == FreeTimeoutTask(w.tasks)
                w1 == [w EXCEPT
                        !.o.wifi_ap = IF w.ok THEN "up" ELSE "down",
                        !.o.radio = IF w.ok THEN "ap" ELSE @,
                        !.o.setup_timeout_task = tid,
                        !.stuck = @ \/ tid = ""]
                w2 == IF tid = "" THEN w1
                      ELSE [w1 EXCEPT !.tasks[tid] =
                              [IdleTask EXCEPT !.pc = "timeout:sleep",
                                               !.op = "timeout"]]
            IN  IF Me(w).op = "boot" THEN run_shadow(w2, "initialized")
                ELSE End(w2)

\* ShadowOrchestrator._enter_monitor_mode
enter_monitor_mode(w, at) ==
    CASE at = "begin" ->
            IF w.o.wifi_ap = "up" THEN Suspend(w, "monitor:wifi_ap.stop")
            ELSE enter_monitor_mode(w, "ap stopped")
      [] at = "monitor:wifi_ap.stop" ->
            enter_monitor_mode(
                [w EXCEPT !.o.wifi_ap = "none",
                          !.o.radio = IF @ = "ap" THEN "managed" ELSE @],
                "ap stopped")
      [] at = "ap stopped" ->
            Suspend([w EXCEPT !.o.setup_mode = FALSE,
                              !.tasks = Cancel(w.tasks, w.o.setup_timeout_task),
                              !.o.setup_timeout_task = ""],
                    "monitor:set_monitor_mode")
      [] OTHER ->
            LET failed == [w EXCEPT !.o.state = "ERROR"]
                ready == [w EXCEPT !.o.radio = "monitor",
                                   !.o.comps = TRUE,
                                   !.s = NewScanner(w.s),
                                   !.h = NewHopper(w.h),
                                   !.eop = "new",
                                   !.o.state = "IDLE"]
                w1 == IF UseNexmon /\ ~w.ok THEN failed
                      ELSE IF w.ok THEN ready
                      ELSE [ready EXCEPT !.o.radio = w.o.radio]
            IN  IF Me(w).op = "boot" THEN run_shadow(w1, "initialized")
                ELSE private_start_scanning(w1, "begin")

\* ShadowOrchestrator.return_to_setup
return_to_setup(w, at) ==
    CASE at = "begin" ->
            LET w1 == ScannerStop(w, "return_to_setup:scanner.stop")
            IN  IF Me(w1).pc = "go" THEN return_to_setup(w1, "scanner stopped")
                ELSE w1
      [] at = "return_to_setup:scanner.stop" ->
            return_to_setup(ScannerStopped(w), "scanner stopped")
      [] at = "scanner stopped" ->
            LET w1 == HopperStop(w, "return_to_setup:hopper.stop")
            IN  IF Me(w1).pc = "go" THEN return_to_setup(w1, "hopper stopped")
                ELSE w1
      [] at = "return_to_setup:hopper.stop" ->
            return_to_setup(HopperStopped(w), "hopper stopped")
      [] at = "hopper stopped" ->
            Suspend(w, "return_to_setup:set_managed_mode")
      [] OTHER ->
            enter_setup_mode([w EXCEPT !.o.radio = "managed"], "begin")

\* ShadowOrchestrator.start_scanning
start_scanning(w, at) ==
    IF w.o.setup_mode THEN enter_monitor_mode(w, "begin")
    ELSE private_start_scanning(w, "begin")

\* ShadowOrchestrator._start_scanning
private_start_scanning(w, at) ==
    LET w1 == IF w.o.comps
              THEN [w EXCEPT
                     !.o.state = "SCANNING",
                     !.s = TaskStart(w.s, w.tasks, "swait"),
                     !.h = TaskStart(w.h, w.tasks, "hwait"),
                     !.stuck = \/ @
                               \/ ~CanStart(w.s, w.tasks, "swait")
                               \/ ~CanStart(w.h, w.tasks, "hwait")]
              ELSE [w EXCEPT !.o.state = "SCANNING"]
    IN  IF Me(w).op = "boot" THEN start(w1, "scanning started") ELSE End(w1)

\* ShadowOrchestrator.start
start(w, at) ==
    CASE at = "begin" ->
            IF w.o.running THEN run_shadow(w, "started")
            ELSE Suspend([w EXCEPT !.o.running = TRUE],
                         "start:set_monitor_mode")
      [] at = "start:set_monitor_mode" ->
            private_start_scanning(
                [w EXCEPT !.o.original_mode = w.o.radio,
                          !.o.radio = IF w.ok THEN "monitor" ELSE @],
                "begin")
      [] OTHER ->
            run_shadow(
                [w EXCEPT !.o.main_task = "main",
                          !.tasks["main"] =
                              [IdleTask EXCEPT !.pc = "created", !.op = "main"]],
                "started")

\* ShadowOrchestrator.stop
stop(w, at) ==
    CASE at = "begin" ->
            LET w1 == ScannerStop([w EXCEPT !.o.running = FALSE],
                                  "stop:scanner.stop")
            IN  IF Me(w1).pc = "go" THEN stop(w1, "scanner stopped") ELSE w1
      [] at = "stop:scanner.stop" -> stop(ScannerStopped(w), "scanner stopped")
      [] at = "scanner stopped" ->
            LET w1 == EngineStop(w, "stop:stop_capture")
            IN  IF Me(w1).pc = "go" THEN stop(w1, "capture stopped") ELSE w1
      [] at = "stop:stop_capture" -> stop(EngineStopped(w), "capture stopped")
      [] at = "capture stopped" ->
            LET w1 == HopperStop(w, "stop:hopper.stop")
            IN  IF Me(w1).pc = "go" THEN stop(w1, "hopper stopped") ELSE w1
      [] at = "stop:hopper.stop" -> stop(HopperStopped(w), "hopper stopped")
      [] at = "hopper stopped" -> Suspend(w, "stop:battery.stop_monitoring")
      [] at = "stop:battery.stop_monitoring" ->
            Suspend([w EXCEPT !.tasks = Cancel(w.tasks, w.o.main_task)],
                    "stop:database.close")
      [] OTHER ->
            LET w1 == [w EXCEPT !.o.state = "STOPPED",
                                !.o.radio = IF w.o.original_mode = "managed"
                                            THEN "managed" ELSE @]
            IN  IF Me(w).op = "shutdown" THEN shutdown(w1, "stopped")
                ELSE End(w1)

\* ShadowOrchestrator.shutdown: stop(), then the display, the access point
\* and power.shutdown(delay=2), which sleeps before it runs the power-off
\* command
shutdown(w, at) ==
    CASE at = "begin" -> stop(w, "begin")
      [] at = "stopped" -> Suspend(w, "shutdown:power.shutdown")
      [] OTHER -> End([w EXCEPT !.o.power_off = TRUE])

\* ShadowOrchestrator.set_mode(mode); the mode is in the coroutine's record
set_mode(w, at) ==
    CASE at = "begin" ->
            IF Me(w).mode = w.o.mode THEN End(w)
            ELSE LET w1 == ScannerStop([w EXCEPT !.o.mode = Me(w).mode],
                                       "set_mode:scanner.stop")
                 IN  IF Me(w1).pc = "go" THEN set_mode(w1, "scanner stopped")
                     ELSE w1
      [] at = "set_mode:scanner.stop" ->
            set_mode(ScannerStopped(w), "scanner stopped")
      [] at = "scanner stopped" ->
            LET w1 == EngineStop(w, "set_mode:stop_capture")
            IN  IF Me(w1).pc = "go" THEN set_mode(w1, "capture stopped") ELSE w1
      [] at = "set_mode:stop_capture" ->
            set_mode(EngineStopped(w), "capture stopped")
      [] at = "capture stopped" ->
            LET w1 == HopperStop(w, "set_mode:hopper.stop")
            IN  IF Me(w1).pc = "go" THEN set_mode(w1, "hopper stopped") ELSE w1
      [] at = "set_mode:hopper.stop" ->
            set_mode(HopperStopped(w), "hopper stopped")
      [] OTHER -> private_start_scanning(w, "begin")

\* start_capture without the test for a target
start_capture_NoTargetTest(w, at) ==
    CASE at = "begin" ->
            LET channel == IF w.o.comps /\ w.s.ap_known
                                   /\ w.o.target[1] = TargetBssid
                           THEN w.s.ap_channel ELSE 0
                w1 == HopperStop([w EXCEPT !.tasks[w.me].channel = channel],
                                 "start_capture:hopper.stop")
            IN  IF w.o.comps /\ channel # 0
                THEN IF Me(w1).pc = "go"
                     THEN start_capture(w1, "hopper stopped") ELSE w1
                ELSE start_capture(w, "pinned")
      [] at = "start_capture:hopper.stop" ->
            start_capture(HopperStopped(w), "hopper stopped")
      [] at = "hopper stopped" -> Suspend(w, "start_capture:set_channel")
      [] at = "start_capture:set_channel" ->
            start_capture(
                [w EXCEPT !.h.channel = IF w.ok THEN Me(w).channel ELSE @],
                "pinned")
      [] OTHER ->
            End([w EXCEPT !.o.state = "CAPTURING",
                          !.eop = IF w.o.comps THEN "start" ELSE "none"])

\* ShadowOrchestrator.start_capture
start_capture(w, at) ==
    CASE at = "begin" ->
            IF w.o.target = <<>> THEN End(w)
            ELSE LET channel == IF w.o.comps /\ w.s.ap_known
                                   /\ w.o.target[1] = TargetBssid
                                THEN w.s.ap_channel ELSE 0
                     w1 == HopperStop([w EXCEPT !.tasks[w.me].channel = channel],
                                      "start_capture:hopper.stop")
                 IN  IF w.o.comps /\ channel # 0
                     THEN IF Me(w1).pc = "go"
                          THEN start_capture(w1, "hopper stopped") ELSE w1
                     ELSE start_capture(w, "pinned")
      [] at = "start_capture:hopper.stop" ->
            start_capture(HopperStopped(w), "hopper stopped")
      [] at = "hopper stopped" -> Suspend(w, "start_capture:set_channel")
      [] at = "start_capture:set_channel" ->
            start_capture(
                [w EXCEPT !.h.channel = IF w.ok THEN Me(w).channel ELSE @],
                "pinned")
      [] OTHER ->
            End([w EXCEPT !.o.state = "CAPTURING",
                          !.eop = IF w.o.comps THEN "start" ELSE "none"])

\* ShadowOrchestrator.stop_capture
stop_capture(w, at) ==
    CASE at = "begin" ->
            LET w1 == EngineStop(w, "stop_capture:stop_capture")
            IN  IF Me(w1).pc = "go" THEN stop_capture(w1, "capture stopped")
                ELSE w1
      [] at = "stop_capture:stop_capture" ->
            stop_capture(EngineStopped(w), "capture stopped")
      [] OTHER ->
            LET w1 == [w EXCEPT
                        !.h = IF w.o.comps
                              THEN TaskStart(w.h, w.tasks, "hwait") ELSE @,
                        !.stuck = \/ @
                                  \/ w.o.comps /\ ~CanStart(w.h, w.tasks, "hwait"),
                        !.o.state = "SCANNING"]
            IN  IF Me(w).op = "main" THEN main_loop(w1, "sleep") ELSE End(w1)

\* ShadowOrchestrator._main_loop (the battery is never critical)
main_loop(w, at) ==
    CASE at = "sleep" -> Suspend(w, "main:sleep")
      [] OTHER ->
            IF ~w.o.running THEN End(w)
            ELSE IF /\ w.o.mode = "capture" /\ w.o.target # <<>>
                    /\ w.o.comps /\ EngineState = "SUCCESS" /\ AutoStop
            THEN stop_capture(w, "begin")
            ELSE main_loop(w, "sleep")

\* where a suspended coroutine goes on
Resume(w) ==
    LET pc == Me(w).pc
    IN  CASE pc = "run_shadow:watch" -> run_shadow(w, pc)
          [] pc = "setup:wifi_ap.start" -> enter_setup_mode(w, pc)
          [] pc \in {"monitor:wifi_ap.stop", "monitor:set_monitor_mode"} ->
                enter_monitor_mode(w, pc)
          [] pc \in {"return_to_setup:scanner.stop", "return_to_setup:hopper.stop",
                     "return_to_setup:set_managed_mode"} ->
                return_to_setup(w, pc)
          [] pc = "start:set_monitor_mode" -> start(w, pc)
          [] pc \in {"stop:scanner.stop", "stop:stop_capture", "stop:hopper.stop",
                     "stop:battery.stop_monitoring", "stop:database.close"} ->
                stop(w, pc)
          [] pc \in {"set_mode:scanner.stop", "set_mode:stop_capture",
                     "set_mode:hopper.stop"} -> set_mode(w, pc)
          [] pc \in {"start_capture:hopper.stop", "start_capture:set_channel"} ->
                start_capture(w, pc)
          [] pc = "stop_capture:stop_capture" -> stop_capture(w, pc)
          [] pc \in {"created", "main:sleep"} -> main_loop(w, pc)
          [] pc = "shutdown:power.shutdown" -> shutdown(w, pc)
          [] pc = "timeout:sleep" ->
                IF w.o.setup_mode THEN start_scanning(w, "begin") ELSE End(w)
          [] OTHER -> End(w)

\* CaptureEngine(...): a fresh engine object replaces the orchestrator's
EngineNew ==
    /\ cap_running' = FALSE
    /\ cap_task' = 0
    /\ cap_current_target' = <<>>
    /\ cap_stats' = NoStats
    /\ cap_eapol_frames' = EmptyMap
    /\ capture_loop' = Orphans(capture_loop, FreeLoop)
    /\ stale_sniff' = FALSE
    /\ UNCHANGED <<cap_session, orch_handshakes>>

\* the run of a coroutine becomes the next state
Apply(w) ==
    /\ ~w.stuck
    /\ orch' = w.o
    /\ scn' = [w.s EXCEPT !.loops = CollectTasks(@, w.s.task, w.tasks, "swait")]
    /\ hop' = [w.h EXCEPT !.loops = CollectTasks(@, w.h.task, w.tasks, "hwait")]
    /\ cmd' = w.tasks
    /\ CASE w.eop = "stop_suspend" -> EngineStopSuspend
         [] w.eop = "stop_sync" -> EngineStopSync(w.tasks)
         [] w.eop = "stop_resume" -> EngineStopResume(w.tasks)
         [] w.eop = "start" -> EngineStartCapture(w.o.target[1], w.o.target[2])
         [] w.eop = "new" -> EngineNew
         [] OTHER -> UNCHANGED engine_vars
    /\ UNCHANGED deauth_vars

\* run_shadow is started (asyncio.run)
Boot ==
    /\ cmd["boot"].pc = "idle"
    /\ Apply(run_shadow([World("boot") EXCEPT !.tasks["boot"].op = "boot"],
                        "begin"))

IoPcs ==
    {"setup:wifi_ap.start", "monitor:wifi_ap.stop", "monitor:set_monitor_mode",
     "return_to_setup:set_managed_mode", "start:set_monitor_mode",
     "stop:battery.stop_monitoring", "stop:database.close",
     "start_capture:set_channel", "shutdown:power.shutdown"}

\* the pcs whose subprocess may fail
FalliblePcs ==
    {"monitor:set_monitor_mode", "start:set_monitor_mode",
     "start_capture:set_channel"}

\* the subprocesses (or the helper task) a coroutine waits for have ended
ResumeIo(t, ok) ==
    /\ cmd[t].pc \in IoPcs
    /\ ok \/ cmd[t].pc \in FalliblePcs
    /\ IF cmd[t].cancel THEN Apply(End(World(t)))
       ELSE Apply(Resume([World(t) EXCEPT !.ok = ok]))

\* the task a coroutine awaits inside a stop() is done
ResumeAfterTask(t) ==
    /\ \/ /\ cmd[t].pc \in {"return_to_setup:scanner.stop", "stop:scanner.stop",
                            "set_mode:scanner.stop"}
          /\ scn.loops[cmd[t].swait].pc = "done"
       \/ /\ cmd[t].pc \in {"return_to_setup:hopper.stop", "stop:hopper.stop",
                            "set_mode:hopper.stop", "start_capture:hopper.stop"}
          /\ hop.loops[cmd[t].hwait].pc = "done"
       \/ /\ cmd[t].pc \in {"stop:stop_capture", "set_mode:stop_capture",
                            "stop_capture:stop_capture"}
          /\ capture_loop[cmd[t].wait].pc = "done"
    /\ Apply(Resume(World(t)))

\* asyncio.sleep(setup_timeout) is over
SetupTimeout(t) ==
    /\ cmd[t].pc = "timeout:sleep"
    /\ ~cmd[t].cancel
    /\ Apply(Resume(World(t)))

\* the main loop runs: its first run, or asyncio.sleep(1) is over
MainLoop ==
    /\ cmd["main"].pc \in {"created", "main:sleep"}
    /\ ~cmd["main"].cancel
    /\ Apply(Resume(World("main")))

\* the main loop runs and finds the battery state CRITICAL: it awaits
\* shutdown() and returns
MainLoopCritical ==
    /\ cmd["main"].pc \in {"created", "main:sleep"}
    /\ ~cmd["main"].cancel
    /\ orch.running
    /\ orch.comps
    /\ Apply(shutdown([World("main") EXCEPT !.tasks["main"].op = "shutdown"],
                      "begin"))

\* a cancelled task that sleeps (or has never run) ends
TaskCancelled(t) ==
    /\ cmd[t].pc \in {"timeout:sleep", "created", "main:sleep"}
    /\ cmd[t].cancel
    /\ Apply(End(World(t)))

\* run_shadow sees ShadowState.STOPPED and leaves through its finally clause
WatchStopped ==
    /\ cmd["boot"].pc = "run_shadow:watch"
    /\ orch.state = "STOPPED"
    /\ Apply(Resume(World("boot")))

\* the web server calls the orchestrator: the handler that takes the request
Handler == IF cmd["c1"].pc = "idle" THEN "c1" ELSE "c2"

Command(op, mode) ==
    [World(Handler) EXCEPT !.tasks[Handler].op = op,
                           !.tasks[Handler].mode = mode,
                           !.o.cmds = @ + 1]

CanCommand ==
    /\ cmd[Handler].pc = "idle"
    /\ orch.state # "INITIALIZING"
    /\ orch.cmds < MaxCmds

CmdSetMode(mode) == CanCommand /\ Apply(set_mode(Command("set_mode", mode), "begin"))

\* ShadowOrchestrator.set_target: it has no await, and is not counted among
\* the commands
CmdSetTarget(bssid, ssid) ==
    /\ cmd[Handler].pc = "idle"
    /\ orch.state # "INITIALIZING"
    /\ Apply(End([World(Handler) EXCEPT !.o.target = <<Lower(bssid), ssid>>]))

CmdStartScanning ==
    CanCommand /\ Apply(start_scanning(Command("start_scanning", ""), "begin"))

CmdStartCapture ==
    /\ CanCommand
    /\ cap_session + Cardinality({t \in CmdSlots : cmd[t].op = "start_capture"})
          < MaxSessions
    /\ Apply(start_capture(Command("start_capture", ""), "begin"))

CmdStopCapture ==
    CanCommand /\ Apply(stop_capture(Command("stop_capture", ""), "begin"))

CmdReturnToSetup ==
    /\ CanCommand
    /\ orch.setups < MaxSetups
    /\ Apply(return_to_setup([Command("return_to_setup", "") EXCEPT
                                !.o.setups = @ + 1], "begin"))

CmdStop == CanCommand /\ Apply(stop(Command("stop", ""), "begin"))

\* the steps of the other components leave the orchestrator alone
HopperStep(h) ==
    /\ hop' = [h EXCEPT !.loops = CollectTasks(@, h.task, cmd, "hwait")]
    /\ UNCHANGED <<engine_vars, deauth_vars, cmd, orch, scn>>

\* hop_loop: `while self._running` / `for channel in channels`
HopLoopNext(h, k, idx) ==
    IF h.running
    THEN [h EXCEPT !.loops[k].pc = "set_channel", !.loops[k].idx = idx]
    ELSE [h EXCEPT !.loops[k].pc = "done"]

\* the first run of a hop_loop task
HopLoopRun(k) ==
    /\ hop.loops[k].pc = "created"
    /\ ~hop.loops[k].cancel
    /\ HopperStep(HopLoopNext(hop, k, 1))

\* hop_loop: set_channel(channel) has returned, asyncio.sleep(interval)
HopSetChannel(k, ok) ==
    /\ hop.loops[k].pc = "set_channel"
    /\ ~hop.loops[k].cancel
    /\ HopperStep([hop EXCEPT !.channel = IF ok THEN Channels[hop.loops[k].idx]
                                         ELSE @,
                              !.loops[k].pc = "sleep"])

\* hop_loop: the sleep is over, the next channel is due
HopSleepEnd(k) ==
    /\ hop.loops[k].pc = "sleep"
    /\ ~hop.loops[k].cancel
    /\ HopperStep(HopLoopNext(hop, k, (hop.loops[k].idx % Len(Channels)) + 1))

\* a cancelled hop_loop gets its CancelledError
HopCancelled(k) ==
    /\ Live(hop.loops[k])
    /\ hop.loops[k].cancel
    /\ HopperStep([hop EXCEPT !.loops[k].pc = "done"])

\* a caller of the hopper's API: `channel` and `was_running` are the locals of
\* pause_on_channel, `pre` is what current_channel returned when it was called
IdlePin ==
    [pc |-> "idle", hwait |-> 0, channel |-> 0, was_running |-> FALSE,
     pre |-> 0]

\* the channels a caller pins: one of the hop list, one outside it
PinChannels == {1, 11}

\* a caller awaits hopper.start()
HopperCallStart(i) ==
    /\ cmd[i].pc = "idle"
    /\ ~hop.running
    /\ CanStart(hop, cmd, "hwait")
    /\ hop' = TaskStart(hop, cmd, "hwait")
    /\ UNCHANGED <<engine_vars, deauth_vars, cmd, orch, scn>>

\* a caller awaits hopper.stop(): it is suspended when a live task was
\* cancelled, else stop() runs to its end at once
HopperCallStop(i) ==
    /\ cmd[i].pc = "idle"
    /\ IF TaskStopWaits(hop)
       THEN /\ cmd' = [cmd EXCEPT ![i].pc = "stop:hopper.stop",
                                  ![i].hwait = hop.task]
            /\ hop' = TaskStopCall(hop)
       ELSE /\ cmd' = cmd
            /\ hop' = [TaskStopEnd(TaskStopCall(hop)) EXCEPT
                          !.loops = CollectTasks(@, 0, cmd, "hwait")]
    /\ UNCHANGED <<engine_vars, deauth_vars, orch, scn>>

\* the cancelled hop_loop is done: stop() sets self._task = None and returns
HopperStopReturn(i) ==
    /\ cmd[i].pc = "stop:hopper.stop"
    /\ hop.loops[cmd[i].hwait].pc = "done"
    /\ cmd' = [cmd EXCEPT ![i].pc = "idle", ![i].hwait = 0]
    /\ hop' = [TaskStopEnd(hop) EXCEPT
                  !.loops = CollectTasks(@, 0, cmd', "hwait")]
    /\ UNCHANGED <<engine_vars, deauth_vars, orch, scn>>

\* ChannelHopper.pause_on_channel up to its first await that suspends: the
\* await inside stop() when a live task was cancelled, else set_channel's
\* subprocess
PauseOnChannel(i, channel) ==
    /\ cmd[i].pc = "idle"
    /\ LET call == [IdlePin EXCEPT !.channel = channel,
                                   !.was_running = hop.running,
                                   !.pre = hop.channel]
           stopping == TaskStopCall(hop)
       IN  IF ~hop.running
           THEN /\ cmd' = [cmd EXCEPT ![i] = [call EXCEPT !.pc = "pin:set_channel"]]
                /\ UNCHANGED hop
           ELSE IF TaskStopWaits(hop)
           THEN /\ cmd' = [cmd EXCEPT ![i] = [call EXCEPT !.pc = "pin:hopper.stop",
                                                          !.hwait = hop.task]]
                /\ hop' = stopping
           ELSE /\ cmd' = [cmd EXCEPT ![i] = [call EXCEPT !.pc = "pin:set_channel"]]
                /\ hop' = TaskStopEnd(stopping)
    /\ UNCHANGED <<engine_vars, deauth_vars, orch, scn>>

\* pause_on_channel: the cancelled hop_loop is done, stop() returns and
\* set_channel(channel) starts its subprocess
PauseStopped(i) ==
    /\ cmd[i].pc = "pin:hopper.stop"
    /\ hop.loops[cmd[i].hwait].pc = "done"
    /\ cmd' = [cmd EXCEPT ![i].pc = "pin:set_channel", ![i].hwait = 0]
    /\ hop' = [TaskStopEnd(hop) EXCEPT
                  !.loops = CollectTasks(@, 0, cmd', "hwait")]
    /\ UNCHANGED <<engine_vars, deauth_vars, orch, scn>>

\* pause_on_channel: set_channel(channel) has returned, whatever its result;
\* asyncio.sleep(duration)
PauseSetChannel(i, ok) ==
    /\ cmd[i].pc = "pin:set_channel"
    /\ cmd' = [cmd EXCEPT ![i].pc = "pin:sleep"]
    /\ hop' = [hop EXCEPT !.channel = IF ok THEN cmd[i].channel ELSE @]
    /\ UNCHANGED <<engine_vars, deauth_vars, orch, scn>>

\* pause_on_channel: the duration is over; start() when the hopper ran before
PauseExpire(i) ==
    /\ cmd[i].pc = "pin:sleep"
    /\ cmd[i].was_running => CanStart(hop, cmd, "hwait")
    /\ cmd' = [cmd EXCEPT ![i].pc = "idle"]
    /\ hop' = IF cmd[i].was_running THEN TaskStart(hop, cmd, "hwait") ELSE hop
    /\ UNCHANGED <<engine_vars, deauth_vars, orch, scn>>

ScannerStep(s) ==
    /\ scn' = [s EXCEPT !.loops = CollectTasks(@, s.task, cmd, "swait")]
    /\ UNCHANGED <<engine_vars, deauth_vars, cmd, orch, hop>>

\* scan_loop: its first run, or sniff(timeout=1) has returned
ScanLoopRun(k) ==
    /\ scn.loops[k].pc \in {"created", "sniff"}
    /\ ~scn.loops[k].cancel
    /\ ScannerStep([scn EXCEPT !.loops[k].pc =
                        IF scn.running THEN "sniff" ELSE "done"])

\* scan_loop: sniff() raises (the interface went away); `except Exception`
\* logs it and the task ends, _running stays as it is
ScanError(k) ==
    /\ scn.loops[k].pc = "sniff"
    /\ ~scn.loops[k].cancel
    /\ ScannerStep([scn EXCEPT !.loops[k].pc = "done"])

ScanCancelled(k) ==
    /\ Live(scn.loops[k])
    /\ scn.loops[k].cancel
    /\ ScannerStep([scn EXCEPT !.loops[k].pc = "done"])

\* WiFiScanner._handle_beacon for a beacon of the target AP: the channel
\* stored is the packet's Channel attribute, 0 when it has none
Beacon(channel) ==
    /\ \E k \in DOMAIN scn.loops : scn.loops[k].pc = "sniff"
    /\ ScannerStep([scn EXCEPT !.ap_known = TRUE, !.ap_channel = channel])

\* the frames on the air while the orchestrator runs: M1 and M2 of a client
OrchFrames ==
    {EapolFrame(TargetBssid, Client1, 138), EapolFrame(TargetBssid, Client1, 266)}

\* a sniff thread of the orchestrator's capture engine delivers a frame
OrchPacket(f) ==
    /\ cap_stats.eapol_count < MaxOrchEapol
    /\ HandlePacket(f)

\* ShadowOrchestrator(config), with config.autostart.mode and
\* config.ap.enabled
NewOrchestrator(mode, ap_enabled) ==
    [state |-> "INITIALIZING", mode |-> mode, target |-> <<>>,
     setup_mode |-> FALSE, setup_timeout_task |-> "", running |-> FALSE,
     main_task |-> "", comps |-> FALSE, ap_enabled |-> ap_enabled,
     wifi_ap |-> "none", radio |-> "managed", original_mode |-> "",
     cmds |-> 0, setups |-> 0, power_off |-> FALSE]

OrchInit(modes, ap) ==
    /\ orch \in {NewOrchestrator(mode, ap_enabled) :
                    mode \in modes, ap_enabled \in ap}
    /\ scn = [running |-> FALSE, task |-> 0, ap_known |-> FALSE,
              ap_channel |-> 0, loops |-> [k \in LoopSlots |-> FreeTask]]
    /\ hop = [running |-> FALSE, task |-> 0, channel |-> 0,
              loops |-> [k \in LoopSlots |-> FreeTask]]

OrchNext ==
    \/ Boot
    \/ \E t \in TaskIds, ok \in BOOLEAN : ResumeIo(t, ok)
    \/ \E t \in TaskIds : ResumeAfterTask(t)
    \/ \E t \in TimeoutTasks : SetupTimeout(t)
    \/ MainLoop
    \/ \E t \in TaskIds : TaskCancelled(t)
    \/ WatchStopped
    \/ \E mode \in Modes : CmdSetMode(mode)
    \/ CmdSetTarget(TargetBssid, HomeNet)
    \/ CmdStartScanning
    \/ CmdStartCapture
    \/ CmdStopCapture
    \/ CmdReturnToSetup
    \/ CmdStop
    \/ \E k \in LoopSlots : HopLoopRun(k)
    \/ \E k \in LoopSlots : HopSetChannel(k, TRUE)
    \/ \E k \in LoopSlots : HopSleepEnd(k)
    \/ \E k \in LoopSlots : HopCancelled(k)
    \/ \E k \in LoopSlots : ScanLoopRun(k)
    \/ \E k \in LoopSlots : ScanCancelled(k)
    \/ \E channel \in {0, Channels[2]} : Beacon(channel)
    \/ \E k \in LoopSlots : CaptureLoopRun(k)
    \/ \E k \in LoopSlots : SniffReturn(k)
    \/ \E k \in LoopSlots : LoopCancelled(k)
    \/ \E f \in OrchFrames : OrchPacket(f)
    \/ StaleSniffEnd

(***************************************************************************)
(* The capture engine driven through its own interface: callers start and  *)
(* stop captures, the sniff threads deliver frames.                        *)
(***************************************************************************)
IdleCmd == [pc |-> "idle", wait |-> 0]

EngineInit ==
    /\ cap_running = FALSE
    /\ cap_task = 0
    /\ cap_current_target = <<>>
    /\ cap_stats = NoStats
    /\ cap_eapol_frames = EmptyMap
    /\ cap_session = 0
    /\ capture_loop = [k \in LoopSlots |-> FreeLoop]
    /\ stale_sniff = FALSE
    /\ orch_handshakes = <<>>

\* a caller awaits engine.start_capture(bssid, ssid)
CallStartCapture(i, bssid, ssid) ==
    /\ cmd[i].pc = "idle"
    /\ EngineStartCapture(bssid, ssid)
    /\ UNCHANGED <<cmd, not_engine_vars>>

\* a caller awaits engine.stop_capture()
CallStopCapture(i) ==
    /\ cmd[i].pc = "idle"
    /\ \/ /\ EngineStopSuspend
          /\ cmd' = [cmd EXCEPT ![i] = [pc |-> "engine_stop", wait |-> cap_task]]
       \/ /\ EngineStopSync(cmd)
          /\ UNCHANGED cmd
    /\ UNCHANGED not_engine_vars

\* the awaited capture_loop is done: stop_capture goes on and returns
CallStopCaptureResume(i) ==
    /\ cmd[i].pc = "engine_stop"
    /\ capture_loop[cmd[i].wait].pc = "done"
    /\ cmd' = [cmd EXCEPT ![i] = IdleCmd]
    /\ EngineStopResume(cmd')
    /\ UNCHANGED not_engine_vars

\* what the event loop and the thread pool do by themselves
EngineTasks ==
    \/ \E k \in LoopSlots : CaptureLoopRun(k)
    \/ \E k \in LoopSlots : SniffReturn(k)
    \/ \E k \in LoopSlots : LoopCancelled(k)
    \/ \E i \in DOMAIN cmd : CallStopCaptureResume(i)

EngineNext ==
    \/ \E i \in DOMAIN cmd, b \in {TargetBssid, UpperTargetBssid} :
          CallStartCapture(i, b, HomeNet)
    \/ \E i \in DOMAIN cmd : CallStopCapture(i)
    \/ \E k \in LoopSlots : SniffError(k)
    \/ \E f \in EapolFrames : HandlePacket(f)
    \/ StaleSniffEnd
    \/ EngineTasks

\* one caller drives the engine
InitEngine ==
    EngineInit /\ cmd = [i \in {1} |-> IdleCmd] /\ DeauthInit
    /\ OrchInit({"passive"}, {TRUE})

SpecEngine == InitEngine /\ [][EngineNext]_vars

\* The engine right after a first session that stop_capture ended while its
\* capture_loop waited for sniff(): the task is gone, the statistics of that
\* session are closed, and its sniff thread is still reading.  That session
\* is not counted in cap_session.
InitRestart ==
    /\ cap_running = FALSE
    /\ cap_task = 0
    /\ cap_current_target = <<TargetBssid, HomeNet>>
    /\ cap_stats = [present |-> TRUE, target_bssid |-> TargetBssid,
                    target_ssid |-> HomeNet, end_time |-> TRUE,
                    state |-> "WAITING", eapol_count |-> 0,
                    handshakes |-> <<>>]
    /\ cap_eapol_frames = EmptyMap
    /\ cap_session = 0
    /\ capture_loop = [k \in LoopSlots |-> FreeLoop]
    /\ stale_sniff = TRUE
    /\ orch_handshakes = <<>>
    /\ cmd = [i \in {1} |-> IdleCmd] /\ DeauthInit
    /\ OrchInit({"passive"}, {TRUE})

SpecRestart == InitRestart /\ [][EngineNext]_vars

\* the event loop runs every ready task and every sniff() comes back after
\* its timeout; frames, errors and calls come as they please
EngineFairness ==
    /\ \A k \in LoopSlots : WF_vars(CaptureLoopRun(k))
    /\ \A k \in LoopSlots : WF_vars(SniffReturn(k))
    /\ \A k \in LoopSlots : WF_vars(LoopCancelled(k))
    /\ WF_vars(CallStopCaptureResume(1))
    /\ WF_vars(StaleSniffEnd)

FairSpecEngine == InitEngine /\ [][EngineNext]_vars /\ EngineFairness

\* the Key Information field is the two bytes eapol_data[5:7]
KeyInfoBits == 16

\* _handle_packet reads key_info from the frame and calls
\* _get_eapol_message_num(key_info, eapol_data)
DecodeKeyInfo(i) ==
    /\ cmd[i].pc = "read"
    /\ cmd' = [cmd EXCEPT ![i].pc = "decoded",
                          ![i].msg_num = GetEapolMessageNum(cmd[i].key_info)]
    /\ UNCHANGED <<engine_vars, not_engine_vars>>

\* one call of the decoder on any value of the field
InitKeyInfo ==
    /\ EngineInit /\ DeauthInit /\ OrchInit({"passive"}, {TRUE})
    /\ cmd \in {[i \in {1} |-> [pc |-> "read", key_info |-> k, msg_num |-> 0]] :
                   k \in 0 .. (2 ^ KeyInfoBits - 1)}

SpecKeyInfo == InitKeyInfo /\ [][\E i \in DOMAIN cmd : DecodeKeyInfo(i)]_vars

\* the packets the scanner alone is given
MaxBeacons == 3

\* what the SSID element of a beacon or probe request can hold; NoElt is a
\* packet without that element, ZeroSsid a name of NUL bytes only
NoElt == "no-element"
ZeroSsid == "NUL"
Cafe == "Cafe"

\* f"<hidden_{bssid[-5:].replace(':', '')}>"
HiddenLabel(bssid) ==
    IF bssid = TargetBssid THEN "<hidden_aa01>"
    ELSE IF bssid = OtherBssid THEN "<hidden_aa99>"
    ELSE "<hidden_>"

\* the loop over the elements of a beacon: the (ssid, hidden) it ends with
BeaconSsid(bssid, elt) ==
    IF elt = NoElt THEN [ssid |-> "", hidden |-> FALSE]
    ELSE IF elt = "" \/ elt = ZeroSsid
    THEN [ssid |-> HiddenLabel(bssid), hidden |-> TRUE]
    ELSE [ssid |-> elt, hidden |-> FALSE]

\* AccessPoint(bssid, ssid, channel, signal_dbm, security, hidden) at time
\* now: first_seen and last_seen default to datetime.now(), beacon_count to
\* 0, clients to the empty set
AccessPoint(bssid, name, channel, signal_dbm, now) ==
    [bssid |-> bssid, ssid |-> name.ssid, hidden |-> name.hidden,
     channel |-> channel, signal_dbm |-> signal_dbm,
     first_seen |-> now, last_seen |-> now, beacon_count |-> 0,
     clients |-> {}]

\* AccessPoint.update
ApUpdate(ap, signal_dbm, channel, now) ==
    [ap EXCEPT !.signal_dbm = signal_dbm, !.channel = channel,
               !.last_seen = now, !.beacon_count = @ + 1]

\* The scanner alone: `scn` is the WiFiScanner with its dict of access
\* points (ap_order is the order of insertion the dict keeps), its dict of
\* clients (bssid "" is None; signal and times of a client are left out),
\* its list of probes, its packet count and the clock.
NewWiFiScanner ==
    [access_points |-> EmptyMap, ap_order |-> <<>>, clients |-> EmptyMap,
     probes |-> <<>>, packet_count |-> 0, now |-> 0]

\* WiFiScanner._handle_packet on a beacon, then _handle_beacon; the clock
\* has gone on by `tick` since the packet before.
HandleBeacon(bssid, elt, signal_dbm, channel, tick) ==
    /\ scn.packet_count < MaxBeacons
    /\ LET now == scn.now + tick
           aps == scn.access_points
           known == bssid \in DOMAIN aps
           skip == bssid = "" \/ bssid = Broadcast
       IN  scn' = [scn EXCEPT
                     !.packet_count = @ + 1,
                     !.now = now,
                     !.access_points =
                        IF skip THEN aps
                        ELSE IF known
                        THEN [aps EXCEPT ![bssid] =
                                 ApUpdate(aps[bssid], signal_dbm, channel, now)]
                        ELSE MapPut(aps, bssid,
                                    AccessPoint(bssid, BeaconSsid(bssid, elt),
                                                channel, signal_dbm, now)),
                     !.ap_order = IF skip \/ known THEN @
                                  ELSE Append(@, bssid)]
    /\ UNCHANGED <<engine_vars, deauth_vars, cmd, orch, hop>>

\* Client(mac, bssid)
Client(mac, bssid) == [mac |-> mac, bssid |-> bssid, probes |-> <<>>]

\* WiFiScanner._handle_packet on a probe request, then
\* _handle_probe_request; client_mac "" is a packet without addr2
HandleProbeRequest(client_mac, elt) ==
    /\ scn.packet_count < MaxBeacons
    /\ LET ssid == IF elt = NoElt THEN "" ELSE elt
           cls == IF client_mac \in DOMAIN scn.clients THEN scn.clients
                  ELSE MapPut(scn.clients, client_mac, Client(client_mac, ""))
           seen == \E n \in DOMAIN cls[client_mac].probes :
                       cls[client_mac].probes[n] = ssid
       IN  scn' = IF client_mac = "" \/ ssid = ""
                  THEN [scn EXCEPT !.packet_count = @ + 1]
                  ELSE [scn EXCEPT
                          !.packet_count = @ + 1,
                          !.probes = Append(@, [client_mac |-> client_mac,
                                                ssid |-> ssid]),
                          !.clients =
                             IF seen THEN cls
                             ELSE [cls EXCEPT ![client_mac].probes =
                                                 Append(@, ssid)]]
    /\ UNCHANGED <<engine_vars, deauth_vars, cmd, orch, hop>>

\* WiFiScanner._handle_packet on a data frame, then _handle_data_frame
HandleDataFrame(to_ds, from_ds, addr1, addr2) ==
    /\ scn.packet_count < MaxBeacons
    /\ LET client_mac == IF to_ds /\ ~from_ds THEN addr2
                         ELSE IF from_ds /\ ~to_ds THEN addr1 ELSE ""
           bssid == IF to_ds /\ ~from_ds THEN addr1
                    ELSE IF from_ds /\ ~to_ds THEN addr2 ELSE ""
       IN  scn' = IF client_mac = "" \/ bssid = "" \/ client_mac = Broadcast
                  THEN [scn EXCEPT !.packet_count = @ + 1]
                  ELSE [scn EXCEPT
                          !.packet_count = @ + 1,
                          !.clients =
                             IF client_mac \in DOMAIN @
                             THEN [@ EXCEPT ![client_mac].bssid = bssid]
                             ELSE MapPut(@, client_mac,
                                         Client(client_mac, bssid)),
                          !.access_points =
                             IF bssid \in DOMAIN @
                             THEN [@ EXCEPT ![bssid].clients =
                                               @ \cup {client_mac}]
                             ELSE @]
    /\ UNCHANGED <<engine_vars, deauth_vars, cmd, orch, hop>>

\* sorted(..., key=lambda ap: ap.signal_dbm, reverse=True) is stable: one
\* more record goes behind every record whose signal is not lower
RECURSIVE SortedInsert(_, _)
SortedInsert(sorted, ap) ==
    IF sorted = <<>> THEN <<ap>>
    ELSE IF Head(sorted).signal_dbm >= ap.signal_dbm
    THEN <<Head(sorted)>> \o SortedInsert(Tail(sorted), ap)
    ELSE <<ap>> \o sorted

RECURSIVE SortedBySignal(_)
SortedBySignal(values) ==
    IF values = <<>> THEN <<>>
    ELSE SortedInsert(SortedBySignal(SubSeq(values, 1, Len(values) - 1)),
                      values[Len(values)])

\* WiFiScanner.access_points
access_points(s) ==
    SortedBySignal([n \in DOMAIN s.ap_order |-> s.access_points[s.ap_order[n]]])

\* WiFiScanner(interface) alone
InitScanner ==
    /\ EngineInit /\ DeauthInit
    /\ cmd = [i \in {1} |-> IdleCmd]
    /\ orch = NewOrchestrator("passive", TRUE)
    /\ hop = NewHopper([loops |-> [k \in LoopSlots |-> FreeTask]])
    /\ scn = NewWiFiScanner

ScannerNext ==
    \/ \E bssid \in {TargetBssid, OtherBssid, Broadcast},
          elt \in {NoElt, "", ZeroSsid, HomeNet},
          signal_dbm \in {-40, -70}, channel \in {0, 6}, tick \in {0, 1} :
           HandleBeacon(bssid, elt, signal_dbm, channel, tick)
    \/ \E client_mac \in {Client1, Client2, ""},
          elt \in {NoElt, HomeNet, Cafe} :
           HandleProbeRequest(client_mac, elt)
    \/ \E to_ds, from_ds \in BOOLEAN, ap \in {TargetBssid, OtherBssid},
          station \in {Client1, Client2, Broadcast} :
           \* a frame from the access point has the station in addr1
           HandleDataFrame(to_ds, from_ds, IF from_ds THEN station ELSE ap,
                           IF from_ds THEN ap ELSE station)

SpecScanner == InitScanner /\ [][ScannerNext]_vars

\* the channel hopper alone, with two callers of its API; the first one
\* also pins channels
HopperCallers == {1, 2}

InitHopper ==
    /\ EngineInit /\ DeauthInit /\ OrchInit({"passive"}, {TRUE})
    /\ cmd = [i \in HopperCallers |-> IdlePin]

HopperNext ==
    \/ \E i \in HopperCallers : HopperCallStart(i)
    \/ \E i \in HopperCallers : HopperCallStop(i)
    \/ \E i \in HopperCallers : HopperStopReturn(i)
    \/ \E c \in PinChannels : PauseOnChannel(1, c)
    \/ PauseStopped(1)
    \/ \E ok \in BOOLEAN : PauseSetChannel(1, ok)
    \/ PauseExpire(1)
    \/ \E k \in LoopSlots : HopLoopRun(k)
    \/ \E k \in LoopSlots, ok \in BOOLEAN : HopSetChannel(k, ok)
    \/ \E k \in LoopSlots : HopSleepEnd(k)
    \/ \E k \in LoopSlots : HopCancelled(k)

SpecHopper == InitHopper /\ [][HopperNext]_vars

\* the deauth emitter alone
InitDeauth ==
    EngineInit /\ cmd = [i \in {1} |-> IdleCmd] /\ DeauthInit
    /\ OrchInit({"passive"}, {TRUE})

SpecDeauth == InitDeauth /\ [][DeauthNext]_vars

\* the orchestrator after construction, in the default mode, with and
\* without the setup AP
Init ==
    /\ EngineInit
    /\ DeauthInit
    /\ OrchInit({"passive"}, BOOLEAN)
    /\ cmd = [t \in TaskIds |-> IdleTask]

Spec == Init /\ [][OrchNext]_vars

\* the orchestrator left to itself: the operator names a target and starts
\* a capture, and issues no other command
AutoNext ==
    \/ Boot
    \/ \E t \in TaskIds, ok \in BOOLEAN : ResumeIo(t, ok)
    \/ \E t \in TaskIds : ResumeAfterTask(t)
    \/ \E t \in TimeoutTasks : SetupTimeout(t)
    \/ MainLoop
    \/ CmdSetTarget(TargetBssid, HomeNet)
    \/ CmdStartCapture
    \/ \E k \in LoopSlots : HopLoopRun(k)
    \/ \E k \in LoopSlots : HopSetChannel(k, TRUE)
    \/ \E k \in LoopSlots : HopSleepEnd(k)
    \/ \E k \in LoopSlots : HopCancelled(k)
    \/ \E k \in LoopSlots : ScanLoopRun(k)
    \/ \E k \in LoopSlots : ScanError(k)
    \/ \E channel \in {0, Channels[2]} : Beacon(channel)
    \/ \E k \in LoopSlots : CaptureLoopRun(k)
    \/ \E k \in LoopSlots : SniffReturn(k)
    \/ \E f \in OrchFrames : OrchPacket(f)

\* the event loop runs every coroutine that can go on, timers expire,
\* subprocesses end and sniff() comes back; commands, frames and failures
\* come as they please
AutoFairness ==
    /\ WF_vars(Boot)
    /\ \A t \in TaskIds : WF_vars(\E ok \in BOOLEAN : ResumeIo(t, ok))
    /\ \A t \in TaskIds : WF_vars(ResumeAfterTask(t))
    /\ \A t \in TimeoutTasks : WF_vars(SetupTimeout(t))
    /\ WF_vars(MainLoop)
    /\ \A k \in LoopSlots :
          /\ WF_vars(HopLoopRun(k))
          /\ WF_vars(HopSetChannel(k, TRUE))
          /\ WF_vars(HopSleepEnd(k))
          /\ WF_vars(HopCancelled(k))
          /\ WF_vars(ScanLoopRun(k))
          /\ WF_vars(CaptureLoopRun(k))
          /\ WF_vars(SniffReturn(k))

\* the orchestrator after construction, in either mode of the config
InitAuto ==
    /\ EngineInit
    /\ DeauthInit
    /\ OrchInit(Modes, BOOLEAN)
    /\ cmd = [t \in TaskIds |-> IdleTask]

FairSpecAuto == InitAuto /\ [][AutoNext]_vars /\ AutoFairness

\* the same orchestrator when the battery may become critical
BatteryNext ==
    \/ AutoNext
    \/ MainLoopCritical
    \/ \E k \in LoopSlots : ScanCancelled(k)
    \/ \E k \in LoopSlots : LoopCancelled(k)
    \/ StaleSniffEnd

BatteryFairness ==
    /\ AutoFairness
    /\ \A k \in LoopSlots : WF_vars(ScanCancelled(k)) /\ WF_vars(LoopCancelled(k))
    /\ WF_vars(StaleSniffEnd)

FairSpecBattery == InitAuto /\ [][BatteryNext]_vars /\ BatteryFairness

\* the same orchestrator when the web server may also name a second target
RetargetNext ==
    \/ AutoNext
    \/ CmdSetTarget(OtherBssid, Cafe)

SpecRetarget == InitAuto /\ [][RetargetNext]_vars

(***************************************************************************)
(* Properties of the capture engine.                                       *)
(***************************************************************************)
\* the message numbers the engine holds for a client
Held(c) ==
    IF c \in DOMAIN cap_eapol_frames THEN DOMAIN cap_eapol_frames[c] ELSE {}

\* {1,2} or {2,3} is among the message numbers
HasPair(S) == {1, 2} \subseteq S \/ {2, 3} \subseteq S

\* how many entries of a list satisfy a test
CountIn(seq, Test(_)) == Cardinality({i \in DOMAIN seq : Test(seq[i])})

EmittedInSession(c) ==
    LET Mine(hs) == hs.client_mac = c IN CountIn(cap_stats.handshakes, Mine)

DeliveredInSession(c, n) ==
    LET Mine(hs) == hs.client_mac = c /\ hs.session = n
    IN  CountIn(orch_handshakes, Mine)

C2_OffTargetDropped ==
    [][\A f \in EapolFrames :
          (/\ cap_current_target # <<>>
           /\ Lower(f.addr3) # cap_current_target[1]
           /\ HandlePacket(f))
          => /\ cap_stats' = cap_stats
             /\ cap_eapol_frames' = cap_eapol_frames
             /\ orch_handshakes' = orch_handshakes]_vars

TimeoutClosed ==
    /\ EngineState = "TIMEOUT"
    /\ cap_stats.handshakes = <<>>
    /\ cap_stats.end_time

\* a session has been started and is not closed yet
SessionOpen == cap_running /\ cap_stats.present /\ ~cap_stats.end_time

\* C6 as stated: an open session that is not stopped and completes no
\* handshake ends TIMEOUT with no handshake and end_time set.
C6_TimeoutCloses ==
    SessionOpen ~>
        (~cap_running \/ HasCompleteHandshake(cap_stats) \/ TimeoutClosed)

\* C6, amended: the same, unless sniff() raises and the session ends ERROR.
C6_TimeoutClosesUnlessError ==
    SessionOpen ~>
        (\/ ~cap_running
         \/ HasCompleteHandshake(cap_stats)
         \/ EngineState = "ERROR"
         \/ TimeoutClosed)

\* closed by the deadline after frames had made the session CAPTURING
C6_Witness ==
    /\ TimeoutClosed
    /\ cap_running
    /\ cap_stats.eapol_count > 0

(***************************************************************************)
(* Properties of the deauth emitter.                                       *)
(***************************************************************************)
\* n iterations of AP -> client, client -> AP
RECURSIVE Repeat(_, _)
Repeat(frames, n) == IF n = 0 THEN <<>> ELSE frames \o Repeat(frames, n - 1)

\* C9: a direct burst with a specific client and count = n that has returned
\* has injected the 2n frames AP->client, client->AP, ... with reason 7 and
\* has returned 2n.
C9_DirectBurstSendsAll ==
    LET c == dth_call["direct"]
    IN  (c.pc = "done" /\ c.client # NoClient) =>
           /\ c.ret = 2 * c.count
           /\ c.sent = Repeat(<<DeauthFrame(c.client, TargetBssid, TargetBssid),
                                DeauthFrame(TargetBssid, c.client, TargetBssid)>>,
                              c.count)

(***************************************************************************)
(* Properties of the orchestrator.                                         *)
(***************************************************************************)
\* the command handlers that are inside an orchestrator command
InFlight == {t \in CmdSlots : cmd[t].pc # "idle"}

\* C4: at most one orchestrator command is in flight: while a command is
\* suspended at an await no other command has entered the orchestrator.
C4_CommandsSerialized == Cardinality(InFlight) <= 1

\* C5: the step of start_capture that opens the engine's session finds the
\* hopper stopped, without a task, and on the channel of the target AP.
C5_PinnedBeforeCapture ==
    [][(cap_session' = cap_session + 1) =>
          /\ ~hop'.running
          /\ hop'.task = 0
          /\ scn'.ap_known
          /\ scn'.ap_channel # 0
          /\ hop'.channel = scn'.ap_channel]_vars

\* the orchestrator scans again and the hopper hops
BackToScanning == orch.state = "SCANNING" /\ hop.running

\* C7: once the session is TIMEOUT while the orchestrator is CAPTURING and no
\* command is in flight, the orchestrator gets back to SCANNING with the
\* hopper running, unless a further command is issued.
C7_TimeoutBackToScanning ==
    \A n \in 0 .. MaxCmds :
        (/\ orch.state = "CAPTURING" /\ EngineState = "TIMEOUT"
         /\ InFlight = {} /\ orch.cmds = n)
            ~> (BackToScanning \/ orch.cmds # n)

\* C8: once the session is SUCCESS while the started orchestrator is
\* CAPTURING, auto_stop is set and no command is in flight, the engine is
\* stopped, the hopper runs and the state is SCANNING, in every mode, unless
\* a further command is issued.
C8_SuccessAutoStops ==
    \A n \in 0 .. MaxCmds :
        (/\ orch.state = "CAPTURING" /\ EngineState = "SUCCESS" /\ AutoStop
         /\ orch.running /\ orch.main_task # ""
         /\ InFlight = {} /\ orch.cmds = n)
            ~> (\/ BackToScanning /\ ~cap_running /\ cap_task = 0
                \/ orch.cmds # n)

\* the setup timeout is pending in SETUP and no command has been issued
SetupTimeoutPending ==
    /\ orch.state = "SETUP"
    /\ orch.setup_mode
    /\ orch.cmds = 0
    /\ \E t \in TimeoutTasks : cmd[t].pc = "timeout:sleep"

\* C10: from SETUP the expiry of the setup timeout leads to the AP stopped,
\* the radio in monitor mode, scanner and hopper running and the state
\* SCANNING, unless a command is issued.
C10_TimeoutStartsScanning ==
    SetupTimeoutPending ~>
        (\/ /\ orch.wifi_ap # "up"
            /\ orch.radio = "monitor"
            /\ scn.running
            /\ hop.running
            /\ orch.state = "SCANNING"
         \/ orch.cmds > 0)

\* a frame-source task is at work: a scan_loop or a capture_loop that has
\* handed sniff() to the thread pool and has not been cancelled
FrameSourceRunning ==
    \/ \E k \in LoopSlots : scn.loops[k].pc = "sniff" /\ ~scn.loops[k].cancel
    \/ \E k \in LoopSlots :
          capture_loop[k].pc = "sniffing" /\ ~capture_loop[k].cancel

\* C11: a frame-source task (scan_loop, capture_loop) is running only while
\* the radio is in monitor mode.
C11_MonitorBeforeFrames == FrameSourceRunning => orch.radio = "monitor"

\* C12: once stop has left the orchestrator STOPPED, a step that is not part
\* of a command (none in flight, none issued) nor of the start sequence
\* (run_shadow is waiting for STOPPED) keeps the state STOPPED and starts
\* neither scanner, hopper nor capture.
C12_StoppedStays ==
    [][(/\ orch.state = "STOPPED"
        /\ ~scn.running /\ ~hop.running /\ ~cap_running
        /\ InFlight = {}
        /\ orch'.cmds = orch.cmds
        /\ cmd["boot"].pc = "run_shadow:watch")
       => (/\ orch'.state = "STOPPED"
           /\ ~scn'.running /\ ~hop'.running /\ ~cap_running')]_vars

\* C13: the step in which a command or the timeout handler learns that the
\* switch to monitor mode failed leaves the orchestrator in ERROR with
\* neither scanner nor hopper running.
C13_FailedMonitorEndsInError ==
    [][\A t \in DOMAIN cmd :
          (/\ cmd[t].pc = "monitor:set_monitor_mode"
           /\ ~cmd[t].cancel
           /\ cmd'[t].pc # cmd[t].pc
           /\ orch'.radio # "monitor")
          => (/\ orch'.state = "ERROR"
              /\ ~scn'.running /\ ~hop'.running)]_vars

\* C14: when return_to_setup returns from its last step in SETUP, with no
\* other command in flight and the start sequence over, the orchestrator is
\* in SETUP and no capture is in progress.
C14_ReturnToSetupStopsAll ==
    [][\A t \in CmdSlots :
          (/\ cmd[t].op = "return_to_setup"
           /\ cmd[t].pc # "idle"
           /\ cmd'[t].pc = "idle"
           /\ InFlight = {t}
           /\ orch.state = "SETUP"
           /\ cmd["boot"].pc = "run_shadow:watch")
          => (/\ orch'.state = "SETUP"
              /\ ~cap_running')]_vars

\* C15: after a boot with the AP requested the orchestrator is in SETUP with
\* a pending timeout task, and as long as no command has been issued and the
\* timeout has not fired, a step keeps it in SETUP with the radio not in
\* monitor mode and scanner and hopper not running.
C15_SetupUntilCommandOrTimeout ==
    [][(/\ SetupTimeoutPending
        /\ orch'.cmds = 0
        /\ \A t \in TimeoutTasks : cmd'[t].pc \in {"idle", "timeout:sleep"})
       => (/\ orch'.state = "SETUP"
           /\ orch'.radio # "monitor"
           /\ ~scn'.running /\ ~hop'.running)]_vars

\* C16: when the engine's stop_capture returns to a caller that waited for
\* the capture task, the session state is IDLE.
C16_StopLeavesIdle ==
    [][\A i \in DOMAIN cmd :
          (cmd[i].pc = "engine_stop" /\ cmd'[i].pc = "idle")
          => cap_stats'.state = "IDLE"]_vars

\* C17: while the session is SUCCESS and stop_capture has not been called
\* since, a sniff() of the engine is running, so that an EAPOL frame of the
\* target that arrives is handed to _handle_packet, counted and stored.
C17_AcceptsAfterSuccess ==
    (/\ cap_stats.present
     /\ cap_stats.state = "SUCCESS"
     /\ cap_task # 0
     /\ \A i \in DOMAIN cmd : cmd[i].pc = "idle")
    => Sniffing

\* C18: within a session, a handshake record that is complete stays in
\* CaptureStats.handshakes for the same client and stays complete, whatever
\* frame arrives.
C18_CompletenessMonotonic ==
    [][cap_session' = cap_session =>
          \A i \in DOMAIN cap_stats.handshakes :
              is_complete(cap_stats.handshakes[i]) =>
                  /\ i \in DOMAIN cap_stats'.handshakes
                  /\ cap_stats'.handshakes[i].client_mac =
                         cap_stats.handshakes[i].client_mac
                  /\ is_complete(cap_stats'.handshakes[i])]_vars

\* a complete M1+M2 record has taken a third message
C18_Witness ==
    \E i \in DOMAIN cap_stats.handshakes :
        /\ {1, 2} \subseteq cap_stats.handshakes[i].messages
        /\ Cardinality(cap_stats.handshakes[i].messages) >= 3

\* C19: for every 16-bit Key Information value the decoder returns 1 iff ack
\* and not mic; 2 iff mic, not ack and not secure; 3 iff ack, mic, secure and
\* install; 4 iff mic, secure and not ack; None in every other case (ack is
\* bit 7, mic bit 8, secure bit 9, install bit 6); the four cases exclude each
\* other.
C19_MessageNumDecoding ==
    \A i \in DOMAIN cmd :
        cmd[i].pc = "decoded" =>
            LET k == cmd[i].key_info
                n == cmd[i].msg_num
                ack == Bit(k, 7) = 1
                mic == Bit(k, 8) = 1
                secure == Bit(k, 9) = 1
                install == Bit(k, 6) = 1
                m1 == ack /\ ~mic
                m2 == mic /\ ~ack /\ ~secure
                m3 == ack /\ mic /\ secure /\ install
                m4 == mic /\ secure /\ ~ack
            IN  /\ (n = 1) <=> m1
                /\ (n = 2) <=> m2
                /\ (n = 3) <=> m3
                /\ (n = 4) <=> m4
                /\ (n = 0) <=> ~(m1 \/ m2 \/ m3 \/ m4)
                /\ n \in 0 .. 4
                /\ ~(m1 /\ m2) /\ ~(m1 /\ m3) /\ ~(m1 /\ m4)
                /\ ~(m2 /\ m3) /\ ~(m2 /\ m4) /\ ~(m3 /\ m4)

\* a value with bits outside 6..9 set has been decoded as M3
C19_Witness ==
    \E i \in DOMAIN cmd :
        /\ cmd[i].pc = "decoded"
        /\ cmd[i].key_info = 5066
        /\ cmd[i].msg_num = 3

\* C20: in mode capture, once a target is set while the started orchestrator
\* is SCANNING and no command is in flight, the engine opens a session and the
\* state becomes CAPTURING, unless a further command is issued.
C20_AutoCaptureStarts ==
    \A n \in 0 .. MaxCmds :
        (/\ orch.mode = "capture" /\ orch.state = "SCANNING"
         /\ orch.target # <<>> /\ orch.running
         /\ cmd["boot"].pc = "run_shadow:watch"
         /\ InFlight = {} /\ orch.cmds = n)
            ~> ((orch.state = "CAPTURING" /\ cap_running) \/ orch.cmds # n)

\* C21: in mode passive no step changes the orchestrator's target: set_target
\* is ignored.
C21_PassiveIgnoresTarget ==
    [][(orch.mode = "passive" /\ orch'.mode = "passive")
       => orch'.target = orch.target]_vars

\* C22: while pause_on_channel holds the hopper on a channel (its sleep of
\* `duration` is running and hopping has not been resumed), current_channel
\* is that channel.
C22_PinnedChannelObserved ==
    \A i \in DOMAIN cmd :
        (cmd[i].pc = "pin:sleep" /\ ~hop.running)
        => hop.channel = cmd[i].channel

\* C23: when a pin of a running hopper ends, the channel the resumed hop
\* loop sets first is not the channel in use before the pin.
C23_ResumesAtNextEntry ==
    [][\A i \in DOMAIN cmd :
          (/\ cmd[i].pc = "pin:sleep" /\ cmd'[i].pc = "idle"
           /\ cmd[i].was_running
           /\ cmd[i].pre # 0
           /\ hop'.task # 0)
          => Channels[hop'.loops[hop'.task].idx] # cmd[i].pre]_vars

\* C24: a continuous task for which stop() has been called injects no
\* further frame.
C24_StoppedInjectsNothing ==
    [][\A who \in ContSlots :
          dth_call[who].stopped =>
              \/ dth_call'[who].sent = dth_call[who].sent
              \/ dth_call'[who].sent = <<>>]_vars

\* C25: every frame a send_deauth without client has injected goes to the
\* broadcast address with the AP as source and BSSID; none goes to the AP.
C25_BroadcastOnly ==
    \A who \in DOMAIN dth_call :
        dth_call[who].client = NoClient =>
            \A j \in 1 .. Len(dth_call[who].sent) :
                /\ dth_call[who].sent[j].addr1 = Broadcast
                /\ dth_call[who].sent[j].addr2 = TargetBssid
                /\ dth_call[who].sent[j].addr3 = TargetBssid
                /\ dth_call[who].sent[j].addr1 # TargetBssid

\* a direct burst without client has returned after two frames or more
C25_Witness ==
    /\ dth_call["direct"].pc = "done"
    /\ dth_call["direct"].client = NoClient
    /\ Len(dth_call["direct"].sent) >= 2

\* the engine's last stop_capture has returned and no session was opened since
StopReturned ==
    /\ cap_stats.present
    /\ ~cap_running
    /\ cap_task = 0
    /\ \A i \in DOMAIN cmd : cmd[i].pc = "idle"

\* C26: once stop_capture has returned, a step that opens no new session
\* leaves the session's eapol_count, state and handshake list as they are and
\* emits no Handshake.
C26_SnapshotFinalAfterStop ==
    [][(StopReturned /\ cap_session' = cap_session)
       => (/\ cap_stats'.eapol_count = cap_stats.eapol_count
           /\ cap_stats'.state = cap_stats.state
           /\ cap_stats'.handshakes = cap_stats.handshakes
           /\ orch_handshakes' = orch_handshakes)]_vars

\* the scanner believes it runs but its scan_loop has ended
FrameSourceDead ==
    /\ scn.running
    /\ scn.task # 0
    /\ scn.loops[scn.task].pc = "done"

\* C27: once the frame source has died while the orchestrator is SCANNING and
\* no command is in flight, the source is restarted or the state becomes
\* ERROR, unless a further command is issued.
C27_DeadSourceRecovered ==
    \A n \in 0 .. MaxCmds :
        (/\ orch.state = "SCANNING" /\ FrameSourceDead
         /\ InFlight = {} /\ orch.cmds = n)
            ~> (\/ orch.state = "ERROR"
                \/ ~FrameSourceDead
                \/ orch.cmds # n)

\* the running session holds a complete handshake whose file was not written
\* while its capture_loop waits for sniff()
UnsavedComplete ==
    /\ cap_running
    /\ cap_task # 0
    /\ capture_loop[cap_task].pc = "sniffing"
    /\ ~capture_loop[cap_task].cancel
    /\ \E i \in DOMAIN cap_stats.handshakes :
          /\ is_complete(cap_stats.handshakes[i])
          /\ ~cap_stats.handshakes[i].pcap_path

\* stop_capture has been called on the session
StopCalled == cap_task = 0 \/ capture_loop[cap_task].cancel

\* every handshake of the session's list has been delivered to the callback
\* with the same pcap_path
EmittedInMemory ==
    \A i \in DOMAIN cap_stats.handshakes :
        \E j \in DOMAIN orch_handshakes :
            /\ orch_handshakes[j].session = cap_stats.handshakes[i].session
            /\ orch_handshakes[j].client_mac = cap_stats.handshakes[i].client_mac
            /\ orch_handshakes[j].pcap_path = cap_stats.handshakes[i].pcap_path

C29_NoTargetRejected ==
    [][(orch.target = <<>> /\ CmdStartCapture)
       => (/\ orch'.state = orch.state
           /\ hop' = hop
           /\ scn' = scn
           /\ UNCHANGED engine_vars)]_vars

\* start_capture has been issued twice without a target (it is the only
\* counted command of this specification) and the orchestrator still scans
C29_Witness ==
    /\ orch.target = <<>>
    /\ orch.cmds = MaxCmds
    /\ orch.state = "SCANNING"
    /\ hop.running /\ scn.running
    /\ ~cap_running /\ cap_session = 0

\* C30: every access point the scanner has stored has a beacon_count of 1 or
\* more, the number of its beacons processed.
C30_BeaconCounted ==
    \A b \in DOMAIN scn.access_points :
        scn.access_points[b].beacon_count >= 1

\* C31: a beacon with a non-empty name for an access point stored as hidden
\* changes the stored ssid to that name.
C31_HiddenUpgraded ==
    [][\A bssid \in {TargetBssid, OtherBssid},
          signal_dbm \in {-40, -70}, channel \in {0, 6}, tick \in {0, 1} :
           ( /\ bssid \in DOMAIN scn.access_points
             /\ scn.access_points[bssid].hidden
             /\ HandleBeacon(bssid, HomeNet, signal_dbm, channel, tick) )
           => scn'.access_points[bssid].ssid = HomeNet]_vars

\* the order of the MAC strings of the model: a comes before b
MacBefore(a, b) == a = TargetBssid /\ b = OtherBssid

\* C32: the list of access points the scanner returns is sorted by signal
\* descending, and access points of equal signal are in ascending order of
\* BSSID.
C32_SortedBySignalThenBssid ==
    LET aps == access_points(scn)
    IN  \A i, j \in DOMAIN aps :
            i < j => \/ aps[i].signal_dbm > aps[j].signal_dbm
                     \/ /\ aps[i].signal_dbm = aps[j].signal_dbm
                        /\ MacBefore(aps[i].bssid, aps[j].bssid)

\* a capacity N of the probe store that the packets of the model can exceed
ProbeCapacity == MaxBeacons - 1

\* C33: the probe store never holds more than N probes.
C33_ProbeRingBounded == Len(scn.probes) <= ProbeCapacity

\* C40: a station is in the clients set of an access point only if the
\* station's bssid is that access point's, and no station is stored under the
\* broadcast MAC.
C40_StationLinkConsistent ==
    /\ \A b \in DOMAIN scn.access_points :
          \A c \in scn.access_points[b].clients :
              c \in DOMAIN scn.clients /\ scn.clients[c].bssid = b
    /\ Broadcast \notin DOMAIN scn.clients

\* C34: within one session the state never goes from SUCCESS back to
\* CAPTURING or WAITING.
C34_SuccessStays ==
    [][(EngineState = "SUCCESS" /\ cap_session' = cap_session)
          => cap_stats'.state \notin {"CAPTURING", "WAITING"}]_vars

\* C35: once a session has ended by TIMEOUT or ERROR the engine is no longer
\* running, so that the next start_capture is accepted.
C35_EndedSessionIsClosed ==
    (cap_stats.present /\ cap_stats.state \in {"TIMEOUT", "ERROR"}
     /\ cap_stats.end_time)
    => ~cap_running

\* C36: while a capture is in progress the BSSID the engine filters on is the
\* orchestrator's target BSSID.
C36_EngineFollowsTarget ==
    (cap_running /\ CapTaskLive /\ orch.target # <<>>)
    => cap_current_target[1] = orch.target[1]

\* the hop_loop tasks that are alive and have not been cancelled
HoppingTasks == {k \in LoopSlots : Live(hop.loops[k]) /\ ~hop.loops[k].cancel}

\* C37: at most one hop_loop task is alive at any time (a cancelled task that
\* has not yet got its CancelledError is not counted).
C37_OneHopLoop == Cardinality(HoppingTasks) <= 1

\* C38: when the main loop has seen a critical battery, the orchestrator
\* eventually reaches STOPPED and the power-off is requested.
C38_CriticalBatteryShutsDown ==
    (cmd["main"].op = "shutdown") ~> (orch.state = "STOPPED" /\ orch.power_off)

\* C39: every message number a Handshake of the session carries for a client
\* was received in a frame of that client from the target BSSID: the frame
\* the engine holds for it is such a frame.
C39_MessagesOfOneClient ==
    cap_stats.present =>
        \A i \in DOMAIN cap_stats.handshakes :
            LET c == cap_stats.handshakes[i].client_mac
            IN  \A n \in cap_stats.handshakes[i].messages :
                    /\ n \in Held(c)
                    /\ \E k \in KeyInfos :
                          /\ GetEapolMessageNum(k) = n
                          /\ cap_eapol_frames[c][n] =
                                 EapolFrame(cap_current_target[1], c, k)

\* a Handshake of Client1 while frames of Client2 are held as well
C39_Witness ==
    /\ cap_stats.present
    /\ \E i \in DOMAIN cap_stats.handshakes :
          cap_stats.handshakes[i].client_mac = Client1
    /\ Held(Client2) # {}
    /\ ~HasPair(Held(Client2))

============================================================================
